---- MODULE Spec2Model ----
(***************************************************************************)
(* Model of the embedded content viewer (InteractiveOutput, second         *)
(* variant with url/htmlContent props) and of the transcript that          *)
(* constructs it (ChatView messages.map).                                  *)
(*                                                                         *)
(* JavaScript values are records [k, n, e, s, p]: k is the type tag, n and  *)
(* e the numeric value n * 10^e, s the text of a string as a sequence of   *)
(* one-character strings, p the kind of primitive an object converts to.   *)
(* Numbers are IEEE 754 doubles, each written as the shortest decimal that *)
(* reads back as it (Number::toString).                                    *)
(***************************************************************************)
EXTENDS Integers, Sequences, FiniteSets, TLC

\* ------------------------------------------------------------------------
\* Bounds of the model
\* ------------------------------------------------------------------------
NumViewers == 2
MaxPieces == 3
MaxReloads == 1
NumProjects == 2
NumConversations == 3
MaxMessages == 4
MaxLoads == 2
MaxFiles == 2
MaxClock == 2

\* A viewer is named by the position of its message in the transcript; the
\* transcripts of the viewer's own specifications hold NumViewers messages.
Viewers == 1..MaxMessages

\* ------------------------------------------------------------------------
\* Program constants
\* ------------------------------------------------------------------------
InitialHeight == 450
Margin == 40
MinHeight == 300
MaxHeight == 800

\* ------------------------------------------------------------------------
\* JavaScript values
\* ------------------------------------------------------------------------
\* A finite number is a double, kept as the decimal m * 10^e of
\* Number::toString.  Its record is canonical: e = 0 for an integer of at
\* most nine digits, otherwise m does not end in 0; n is m when m has at
\* most nine digits, otherwise n is the sign (1 or -1) and s the digits of
\* |m|, most significant first.  A boolean is n = 1 (true) or 0 (false).
\* The sign of zero is not kept.
JsValue(kind, num, exp, text, prim) ==
    [k |-> kind, n |-> num, e |-> exp, s |-> text, p |-> prim]

Undefined == JsValue("undefined", 0, 0, <<>>, "")
Null == JsValue("null", 0, 0, <<>>, "")
NaN == JsValue("nan", 0, 0, <<>>, "")
PosInfinity == JsValue("infinity", 1, 0, <<>>, "")
NegInfinity == JsValue("infinity", -1, 0, <<>>, "")
Str(t) == JsValue("string", 0, 0, t, "")
True == JsValue("boolean", 1, 0, <<>>, "")
False == JsValue("boolean", 0, 0, <<>>, "")
BigInt(x) == JsValue("bigint", x, 0, <<>>, "")

\* An object, with the primitive its conversion yields (OrdinaryToPrimitive):
\* a string for a plain object and for an array (the joined elements), a
\* number for a Number object.
ObjStr(t) == JsValue("object", 0, 0, t, "string")
Obj == ObjStr(<<"[object Object]">>)
ArrayOf(t) == ObjStr(t)

ToPrimitive(v) ==
    IF v.k # "object" THEN v
    ELSE IF v.p = "string" THEN Str(v.s)
    ELSE [v EXCEPT !.k = v.p, !.p = ""]

\* The outcome of an operation that throws a TypeError.
TypeError == JsValue("TypeError", 0, 0, <<>>, "")

\* JavaScript truthiness (ToBoolean), as used by `&&`, `!!` and `? :`.
Truthy(v) ==
    CASE v.k = "undefined" -> FALSE
      [] v.k = "null" -> FALSE
      [] v.k = "nan" -> FALSE
      [] v.k = "number" -> v.n # 0
      [] v.k = "boolean" -> v.n # 0
      [] v.k = "bigint" -> v.n # 0
      [] v.k = "string" -> v.s # <<>>
      [] OTHER -> TRUE

\* White space and line terminators (WhiteSpace and LineTerminator of the
\* language): the characters trim() strips and StringToNumber skips.  The
\* characters TLA+ cannot write are named by their code point.
WhiteSpace ==
    { " ", "\t", "\n", "\r", "\f", "U+000B", "U+00A0", "U+FEFF", "U+1680",
      "U+2000", "U+2001", "U+2002", "U+2003", "U+2004", "U+2005", "U+2006",
      "U+2007", "U+2008", "U+2009", "U+200A", "U+2028", "U+2029", "U+202F",
      "U+205F", "U+3000" }

RECURSIVE TrimStart(_)
TrimStart(t) ==
    IF t # <<>> /\ Head(t) \in WhiteSpace THEN TrimStart(Tail(t)) ELSE t

RECURSIVE TrimEnd(_)
TrimEnd(t) ==
    IF t # <<>> /\ t[Len(t)] \in WhiteSpace
    THEN TrimEnd(SubSeq(t, 1, Len(t) - 1)) ELSE t

\* String.prototype.trim
Trim(t) == TrimEnd(TrimStart(t))

Digits == {"0", "1", "2", "3", "4", "5", "6", "7", "8", "9"}

DigitVal(c) ==
    CASE c = "0" -> 0 [] c = "1" -> 1 [] c = "2" -> 2 [] c = "3" -> 3
      [] c = "4" -> 4 [] c = "5" -> 5 [] c = "6" -> 6 [] c = "7" -> 7
      [] c = "8" -> 8 [] c = "9" -> 9
      [] c \in {"a", "A"} -> 10 [] c \in {"b", "B"} -> 11
      [] c \in {"c", "C"} -> 12 [] c \in {"d", "D"} -> 13
      [] c \in {"e", "E"} -> 14 [] c \in {"f", "F"} -> 15

\* The digits of a literal of radix r.
RadixDigits(r) ==
    CASE r = 2 -> {"0", "1"}
      [] r = 8 -> {"0", "1", "2", "3", "4", "5", "6", "7"}
      [] r = 10 -> Digits
      [] r = 16 -> Digits \cup {"a", "b", "c", "d", "e", "f",
                                "A", "B", "C", "D", "E", "F"}

AllIn(t, S) == \A i \in 1..Len(t) : t[i] \in S

\* The first position of t holding a character of S, 0 when there is none.
IndexOf(t, S) ==
    IF \E i \in 1..Len(t) : t[i] \in S
    THEN CHOOSE i \in 1..Len(t) :
            t[i] \in S /\ \A j \in 1..(i - 1) : t[j] \notin S
    ELSE 0

RECURSIVE Pow10(_)
Pow10(x) == IF x = 0 THEN 1 ELSE 10 * Pow10(x - 1)

Abs(x) == IF x < 0 THEN -x ELSE x

Larger(x, y) == IF x > y THEN x ELSE y

\* Natural numbers of any size, for the arithmetic of doubles: a sequence
\* of decimal digits, least significant first, without a leading zero; <<>>
\* is 0.  A step that is repeated many times is split in halves, and the
\* intermediate value is computed before the next step starts.
One == <<1>>
TwoTo52 == <<6, 9, 4, 0, 7, 3, 7, 2, 6, 9, 9, 5, 3, 0, 5, 4>>
TwoTo53 == <<2, 9, 9, 0, 4, 7, 4, 5, 2, 9, 9, 1, 7, 0, 0, 9>>

\* A double is m * 2^q with m < 2^53 and MinExp <= q <= MaxExp.
MinExp == -1074
MaxExp == 971

RECURSIVE Norm(_)
Norm(a) ==
    IF a # <<>> /\ a[Len(a)] = 0 THEN Norm(SubSeq(a, 1, Len(a) - 1)) ELSE a

RECURSIVE FromInt(_)
FromInt(x) == IF x = 0 THEN <<>> ELSE <<x % 10>> \o FromInt(x \div 10)

RECURSIVE ToInt(_)
ToInt(a) == IF a = <<>> THEN 0 ELSE a[1] + 10 * ToInt(Tail(a))

IsOdd(a) == a # <<>> /\ a[1] % 2 = 1

Double(a) ==
    LET n == Len(a)
        b == [i \in 1..n |->
                (2 * a[i] + (IF i > 1 /\ a[i - 1] >= 5 THEN 1 ELSE 0)) % 10]
    IN IF n > 0 /\ a[n] >= 5 THEN SubSeq(b, 1, n) \o <<1>> ELSE SubSeq(b, 1, n)

Halve(a) ==
    LET n == Len(a)
        b == [i \in 1..n |->
                (a[i] + (IF i < n /\ a[i + 1] % 2 = 1 THEN 10 ELSE 0)) \div 2]
    IN IF n > 0 /\ a[n] = 1 THEN SubSeq(b, 1, n - 1) ELSE SubSeq(b, 1, n)

Times5(a) ==
    LET n == Len(a)
        b == [i \in 1..n |->
                (5 * a[i] + (IF i > 1 THEN a[i - 1] \div 2 ELSE 0)) % 10]
    IN IF n > 0 /\ a[n] >= 2 THEN SubSeq(b, 1, n) \o <<a[n] \div 2>>
       ELSE SubSeq(b, 1, n)

RECURSIVE TimesPow2(_, _)
TimesPow2(a, k) ==
    IF k = 0 THEN a
    ELSE IF k = 1 THEN Double(a)
    ELSE LET h == TimesPow2(a, k \div 2)
         IN IF Len(h) >= 0 THEN TimesPow2(h, k - k \div 2) ELSE h

RECURSIVE TimesPow5(_, _)
TimesPow5(a, k) ==
    IF k = 0 THEN a
    ELSE IF k = 1 THEN Times5(a)
    ELSE LET h == TimesPow5(a, k \div 2)
         IN IF Len(h) >= 0 THEN TimesPow5(h, k - k \div 2) ELSE h

\* << a \div 2^k, whether a bit was dropped or st >>
RECURSIVE DivPow2(_, _, _)
DivPow2(a, st, k) ==
    IF k = 0 THEN << a, st >>
    ELSE IF k = 1 THEN << Halve(a), st \/ IsOdd(a) >>
    ELSE LET h == DivPow2(a, st, k \div 2)
         IN IF Len(h) >= 0 THEN DivPow2(h[1], h[2], k - k \div 2) ELSE h

TimesPow10(a, k) == IF a = <<>> THEN a ELSE [i \in 1..k |-> 0] \o a

\* The order of a and b on the digits lo..hi (both of that length).
RECURSIVE CmpFrom(_, _, _, _)
CmpFrom(a, b, lo, hi) ==
    IF lo > hi THEN 0
    ELSE IF lo = hi
    THEN (IF a[lo] > b[lo] THEN 1 ELSE IF a[lo] < b[lo] THEN -1 ELSE 0)
    ELSE LET mid == (lo + hi) \div 2
             h == CmpFrom(a, b, mid + 1, hi)
         IN IF h # 0 THEN h ELSE CmpFrom(a, b, lo, mid)

CmpNat(a, b) ==
    IF Len(a) # Len(b) THEN (IF Len(a) > Len(b) THEN 1 ELSE -1)
    ELSE CmpFrom(a, b, 1, Len(a))

\* The digits lo..hi of a + sg * b with carry c in, and the carry out.
RECURSIVE AddFrom(_, _, _, _, _, _)
AddFrom(a, b, sg, lo, hi, c) ==
    IF lo > hi THEN << <<>>, c >>
    ELSE IF lo = hi
    THEN LET s == (IF lo <= Len(a) THEN a[lo] ELSE 0)
                  + sg * (IF lo <= Len(b) THEN b[lo] ELSE 0) + c
         IN << <<(s + 10) % 10>>, IF s < 0 THEN -1 ELSE s \div 10 >>
    ELSE LET mid == (lo + hi) \div 2
             l == AddFrom(a, b, sg, lo, mid, c)
             h == AddFrom(a, b, sg, mid + 1, hi, l[2])
         IN << l[1] \o h[1], h[2] >>

AddNat(a, b) == Norm(AddFrom(a, b, 1, 1, Larger(Len(a), Len(b)) + 1, 0)[1])

\* a - b for a >= b
SubNat(a, b) == Norm(AddFrom(a, b, -1, 1, Len(a), 0)[1])

RECURSIVE LowZeros(_)
LowZeros(a) == IF a # <<>> /\ a[1] = 0 THEN 1 + LowZeros(Tail(a)) ELSE 0

\* The steps of the arithmetic of doubles are the rules of one recursive
\* operator, Arith: a step names the rule it applies and passes the
\* arguments as a tuple.
RECURSIVE Arith(_, _)

\* Round the real N * 2^q (plus a fraction below one unit of N: its first bit
\* r, and st when any later bit is set) to the nearest double, ties to even.
Round53(N, q, r, st) == Arith("Round53", << N, q, r, st >>)

\* The double nearest D * 10^x (D digits, x an exponent of ten).
ToDouble(D, x) == Arith("ToDouble", << D, x >>)

\* Number::toString's digits: the shortest decimal that reads back as the
\* double d, the nearest to d among the shortest; << digits, exponent >>.
Shortest(W, lo, hi, even, j) == Arith("Shortest", << W, lo, hi, even, j >>)
FromDouble(d) == Arith("FromDouble", << d >>)

\* The digits of a text of decimal digits, and the text of digits.
DigitsOf(t) == Norm([i \in 1..Len(t) |-> DigitVal(t[Len(t) + 1 - i])])
DigitText(a) ==
    [i \in 1..Len(a) |->
        <<"0", "1", "2", "3", "4", "5", "6", "7", "8", "9">>[a[Len(a) + 1 - i] + 1]]

\* The record of the number sg * D * 10^x whose digits D do not end in 0.
Finite(sg, D, x) ==
    IF D = <<>> THEN JsValue("number", 0, 0, <<>>, "")
    ELSE IF Len(D) > 9 THEN JsValue("number", sg, x, DigitText(D), "")
    ELSE IF x >= 0 /\ Len(D) + x <= 9
    THEN JsValue("number", sg * ToInt(D) * Pow10(x), 0, <<>>, "")
    ELSE JsValue("number", sg * ToInt(D), x, <<>>, "")

\* The double of sg * D * 10^x plus the integer c > 0, rounded to a double.
Plus(sg, D, x, c) == Arith("Plus", << sg, D, x, c >>)

\* The double nearest sg * D * 10^x: beyond the range of a double it is an
\* infinity, below half the smallest denormal it is 0.  A decimal of at
\* most 15 digits in the normal range is the shortest that reads back as
\* its double.
Dec(sg, D, x) == Arith("Dec", << sg, D, x >>)

Round53Rule(N, q, r, st) ==
    LET bulk == Larger(3 * (Len(N) - 18), MinExp - q - 1)
        h == DivPow2(N, st \/ r, bulk)
    IN IF N = <<>> /\ q < MinExp THEN << <<>>, MinExp >>
       ELSE IF bulk > 0 THEN Round53(h[1], q + bulk, FALSE, h[2])
       ELSE IF CmpNat(N, TwoTo53) >= 0 \/ q < MinExp
       THEN Round53(Halve(N), q + 1, IsOdd(N), st \/ r)
       ELSE LET M == IF r /\ (st \/ IsOdd(N)) THEN AddNat(N, One) ELSE N
            IN IF M = TwoTo53 THEN << TwoTo52, q + 1 >> ELSE << M, q >>

\* The same double with its significand written in full: m >= 2^52 unless
\* the double is denormal.
RECURSIVE Normal(_)
Normal(d) ==
    IF d[1] # <<>> /\ d[2] > MinExp /\ CmpNat(d[1], TwoTo52) < 0
    THEN Normal(<< Double(d[1]), d[2] - 1 >>) ELSE d

ToDoubleRule(D, x) ==
    IF x >= 0 THEN Normal(Round53(TimesPow10(D, x), 0, FALSE, FALSE))
    ELSE LET k == -x
             j == IF Len(D) >= k + 18 THEN 0 ELSE 4 * (k + 18 - Len(D))
             A == TimesPow2(D, j)
             Q == IF Len(A) > k THEN SubSeq(A, k + 1, Len(A)) ELSE <<>>
             st == \E i \in 1..k : i <= Len(A) /\ A[i] # 0
         IN Normal(Round53(Q, -j, FALSE, st))

ShortestRule(W, lo, hi, even, j) ==
    LET R == Norm(SubSeq(W, 1, j))
        top == IF Len(W) > j THEN SubSeq(W, j + 1, Len(W)) ELSE <<>>
        ten == TimesPow10(One, j)
        lowOK == top # <<>> /\ (CmpNat(R, lo) < 0 \/ (even /\ CmpNat(R, lo) = 0))
        upOK == CmpNat(ten, AddNat(hi, R)) < 0
                \/ (even /\ CmpNat(ten, AddNat(hi, R)) = 0)
        c == CmpNat(Double(R), ten)
        useLow == lowOK /\ (~upOK \/ c < 0 \/ (c = 0 /\ ~IsOdd(top)))
        pick == IF useLow THEN top ELSE AddNat(top, One)
    IN IF lowOK \/ upOK
       THEN << SubSeq(pick, LowZeros(pick) + 1, Len(pick)), j + LowZeros(pick) >>
       ELSE Shortest(W, lo, hi, even, j - 1)

FromDoubleRule(d) ==
    LET m == d[1]
        q == d[2]
        r == 2 - q
        P == IF q >= 2 THEN TimesPow2(One, q - 2) ELSE TimesPow5(One, r)
        W == IF q >= 2 THEN TimesPow2(m, q) ELSE Double(Double(TimesPow5(m, r)))
        hi == Double(P)
        lo == IF m = TwoTo52 /\ q > MinExp THEN P ELSE hi
        s == Shortest(W, lo, hi, ~IsOdd(m), Len(W))
    IN << s[1], s[2] + (IF q >= 2 THEN 0 ELSE -r) >>

PlusRule(sg, D, x, c) ==
    LET d == ToDouble(D, x)
        m == d[1]
        q == d[2]
        a == IF q >= 0 THEN TimesPow2(m, q) ELSE m
        b == IF q >= 0 THEN FromInt(c) ELSE TimesPow2(FromInt(c), -q)
        neg == sg < 0 /\ CmpNat(a, b) > 0
        S == IF sg >= 0 THEN AddNat(a, b)
             ELSE IF neg THEN SubNat(a, b) ELSE SubNat(b, a)
        z == Normal(Round53(S, IF q >= 0 THEN 0 ELSE q, FALSE, FALSE))
        f == FromDouble(z)
    IN IF z[1] = <<>> THEN Finite(1, <<>>, 0)
       ELSE Finite(IF neg THEN -1 ELSE 1, f[1], f[2])

DecRule(sg, D, x) ==
    LET z == LowZeros(D)
        A == SubSeq(D, z + 1, Len(D))
        y == x + z
        mag == Len(A) + y
        d == ToDouble(A, y)
        f == FromDouble(d)
        inf == JsValue("infinity", sg, 0, <<>>, "")
    IN IF A = <<>> THEN Finite(sg, <<>>, 0)
       ELSE IF mag > 310 THEN inf
       ELSE IF mag < -325 THEN Finite(sg, <<>>, 0)
       ELSE IF Len(A) <= 15 /\ mag > -290 /\ mag < 300 THEN Finite(sg, A, y)
       ELSE IF d[1] = <<>> THEN Finite(sg, <<>>, 0)
       ELSE IF d[2] > MaxExp THEN inf
       ELSE Finite(sg, f[1], f[2])

Arith(rule, a) ==
    CASE rule = "Round53" -> Round53Rule(a[1], a[2], a[3], a[4])
      [] rule = "ToDouble" -> ToDoubleRule(a[1], a[2])
      [] rule = "Shortest" -> ShortestRule(a[1], a[2], a[3], a[4], a[5])
      [] rule = "FromDouble" -> FromDoubleRule(a[1])
      [] rule = "Plus" -> PlusRule(a[1], a[2], a[3], a[4])
      [] rule = "Dec" -> DecRule(a[1], a[2], a[3])

\* The number of the integer x: an integer of ten digits is a double as it
\* stands.
Num(x) ==
    IF Abs(x) < 1000000000 THEN JsValue("number", x, 0, <<>>, "")
    ELSE LET D == FromInt(Abs(x))
             z == LowZeros(D)
         IN Finite(IF x < 0 THEN -1 ELSE 1, SubSeq(D, z + 1, Len(D)), z)

\* A Number object and a Boolean object, which convert to their value.
ObjNum(v) == [v EXCEPT !.k = "object", !.p = v.k]
NumberObject(x) == ObjNum(Num(x))
BooleanObject(b) == ObjNum(b)

\* Whether the number x is an integer of at most nine digits, which n holds.
IsSmall(x) == x.e = 0 /\ x.s = <<>>

Sign(x) == IF x.n > 0 THEN 1 ELSE IF x.n < 0 THEN -1 ELSE 0

\* The digits of |m| for the number m * 10^e.
MantissaDigits(x) == IF x.s = <<>> THEN FromInt(Abs(x.n)) ELSE DigitsOf(x.s)

Magnitude(x) == Len(MantissaDigits(x)) + x.e

CompareAbs(x, y) ==
    IF Magnitude(x) # Magnitude(y)
    THEN (IF Magnitude(x) > Magnitude(y) THEN 1 ELSE -1)
    ELSE LET c == IF x.e < y.e THEN x.e ELSE y.e
         IN CmpNat(TimesPow10(MantissaDigits(x), x.e - c),
                   TimesPow10(MantissaDigits(y), y.e - c))

\* -1, 0 or 1 as the number or infinity x is below, equal to or above y.
Compare(x, y) ==
    IF x.k = "infinity" \/ y.k = "infinity"
    THEN LET a == IF x.k = "infinity" THEN 2 * x.n ELSE Sign(x)
             b == IF y.k = "infinity" THEN 2 * y.n ELSE Sign(y)
         IN IF a > b THEN 1 ELSE IF a < b THEN -1
            ELSE IF x.k = y.k THEN 0
            ELSE IF x.k = "infinity" THEN x.n ELSE -y.n
    ELSE IF IsSmall(x) /\ IsSmall(y)
    THEN (IF x.n > y.n THEN 1 ELSE IF x.n < y.n THEN -1 ELSE 0)
    ELSE IF Sign(x) # Sign(y) THEN (IF Sign(x) > Sign(y) THEN 1 ELSE -1)
    ELSE IF Sign(x) = 0 THEN 0
    ELSE Sign(x) * CompareAbs(x, y)

InfinityText == <<"I", "n", "f", "i", "n", "i", "t", "y">>

Radix(c) ==
    CASE c \in {"x", "X"} -> 16
      [] c \in {"o", "O"} -> 8
      [] c \in {"b", "B"} -> 2
      [] OTHER -> 10

\* 0x.., 0o.., 0b..: the unsigned integer literals of another radix.
IsRadixLiteral(u) ==
    /\ Len(u) >= 3
    /\ u[1] = "0"
    /\ Radix(u[2]) # 10
    /\ AllIn(SubSeq(u, 3, Len(u)), RadixDigits(Radix(u[2])))

\* The parts of an unsigned decimal literal: integer digits, fraction digits
\* and the exponent part after "e" (with its sign).
ExponentAt(b) == IndexOf(b, {"e", "E"})
Mantissa(b) == IF ExponentAt(b) = 0 THEN b ELSE SubSeq(b, 1, ExponentAt(b) - 1)
ExponentPart(b) ==
    IF ExponentAt(b) = 0 THEN <<>> ELSE SubSeq(b, ExponentAt(b) + 1, Len(b))
Unsigned(t) == IF t # <<>> /\ t[1] \in {"+", "-"} THEN Tail(t) ELSE t
DotAt(b) == IndexOf(Mantissa(b), {"."})
IntegerDigits(b) ==
    IF DotAt(b) = 0 THEN Mantissa(b) ELSE SubSeq(Mantissa(b), 1, DotAt(b) - 1)
FractionDigits(b) ==
    IF DotAt(b) = 0 THEN <<>>
    ELSE SubSeq(Mantissa(b), DotAt(b) + 1, Len(Mantissa(b)))

IsDecimalLiteral(b) ==
    /\ AllIn(IntegerDigits(b), Digits)
    /\ AllIn(FractionDigits(b), Digits)
    /\ Len(IntegerDigits(b)) + Len(FractionDigits(b)) >= 1
    /\ ExponentAt(b) # 0 =>
          /\ Unsigned(ExponentPart(b)) # <<>>
          /\ AllIn(Unsigned(ExponentPart(b)), Digits)

\* The value of an exponent's digits; beyond six digits every exponent is
\* outside the range of a double alike.
ExponentValue(t) ==
    LET D == DigitsOf(t)
    IN IF Len(D) > 6 THEN 1000000 ELSE ToInt(D)

DecimalValue(b) ==
    LET x == ExponentValue(Unsigned(ExponentPart(b)))
        ex == IF ExponentPart(b) # <<>> /\ ExponentPart(b)[1] = "-"
              THEN -x ELSE x
    IN Dec(1, DigitsOf(IntegerDigits(b) \o FractionDigits(b)),
           ex - Len(FractionDigits(b)))

RECURSIVE ParseRadix(_, _)
ParseRadix(t, r) ==
    IF t = <<>> THEN <<>>
    ELSE LET h == ParseRadix(SubSeq(t, 1, Len(t) - 1), r)
             sh == IF r = 16 THEN 4 ELSE IF r = 8 THEN 3 ELSE 1
         IN AddNat(TimesPow2(h, sh), FromInt(DigitVal(t[Len(t)])))

Negate(v) ==
    IF v.k \in {"number", "infinity"} THEN [v EXCEPT !.n = -v.n] ELSE v
Signed(neg, v) == IF neg THEN Negate(v) ELSE v

\* StringToNumber: white space is skipped at both ends; the empty text is 0;
\* then a radix literal, a signed Infinity or a signed decimal literal with
\* optional fraction and exponent; any other text is NaN.
StringToNumber(t) ==
    LET u == Trim(t)
        b == Unsigned(u)
    IN IF u = <<>> THEN Num(0)
       ELSE IF IsRadixLiteral(u)
       THEN Dec(1, ParseRadix(SubSeq(u, 3, Len(u)), Radix(u[2])), 0)
       ELSE Signed(u[1] = "-",
                   IF b = InfinityText THEN PosInfinity
                   ELSE IF IsDecimalLiteral(b) THEN DecimalValue(b)
                   ELSE NaN)

\* JavaScript ToNumber, as applied by Math.max / Math.min to their
\* arguments: an object is converted to its primitive first, and a BigInt
\* throws a TypeError.
ToNumber(v) ==
    LET p == ToPrimitive(v)
    IN CASE p.k = "number" -> p
         [] p.k = "infinity" -> p
         [] p.k = "null" -> Num(0)
         [] p.k = "boolean" -> Num(p.n)
         [] p.k = "string" -> StringToNumber(p.s)
         [] p.k \in {"bigint", "TypeError"} -> TypeError
         [] OTHER -> NaN

\* x + c for a number x and an integer c > 0: the sum of the two doubles,
\* rounded to a double.  An integer sum below 10^15 is exact.
AddInt(x, c) ==
    LET D == MantissaDigits(x)
        a == TimesPow10(D, x.e)
        b == FromInt(c)
        neg == x.n < 0 /\ CmpNat(a, b) > 0
    IN IF IsSmall(x) /\ x.n + c < 1000000000 THEN Num(x.n + c)
       ELSE IF x.e >= 0 /\ Len(D) + x.e <= 15
       THEN Dec(IF neg THEN -1 ELSE 1,
                IF x.n >= 0 THEN AddNat(a, b)
                ELSE IF neg THEN SubNat(a, b) ELSE SubNat(b, a), 0)
       ELSE Plus(Sign(x), D, x.e, c)

\* JavaScript `x + 40`: the operand is converted to a primitive; numeric
\* addition for a number, string concatenation for a string, and a
\* TypeError for a BigInt, which cannot be mixed with a number.
Plus40(v) ==
    LET p == ToPrimitive(v)
    IN CASE p.k \in {"number", "boolean"} ->
                AddInt(IF p.k = "boolean" THEN Num(p.n) ELSE p, Margin)
         [] p.k = "infinity" -> p
         [] p.k = "bigint" -> TypeError
         [] p.k = "null" -> Num(Margin)
         [] p.k = "string" -> Str(p.s \o <<"4", "0">>)
         [] OTHER -> NaN

\* Math.max / Math.min of two arguments: both are converted first (a BigInt
\* throws), NaN if either is NaN.
MaxOfNumbers(x, y) ==
    IF x.k = "TypeError" \/ y.k = "TypeError" THEN TypeError
    ELSE IF x.k = "nan" \/ y.k = "nan" THEN NaN
    ELSE IF Compare(x, y) >= 0 THEN x ELSE y

MinOfNumbers(x, y) ==
    IF x.k = "TypeError" \/ y.k = "TypeError" THEN TypeError
    ELSE IF x.k = "nan" \/ y.k = "nan" THEN NaN
    ELSE IF Compare(x, y) <= 0 THEN x ELSE y

MathMax(a, b) == MaxOfNumbers(ToNumber(a), ToNumber(b))

MathMin(a, b) == MinOfNumbers(ToNumber(a), ToNumber(b))

\* ------------------------------------------------------------------------
\* Message payloads (event.data)
\* ------------------------------------------------------------------------
ResizeType == Str(<<"r", "e", "s", "i", "z", "e">>)
OtherType == Str(<<"o", "t", "h", "e", "r">>)

\* An object payload with its `type` and `height` properties (Undefined when
\* the property is absent), the null payload and a primitive string payload.
Data(t, h) == [k |-> "object", type |-> t, height |-> h]
NullData == [k |-> "null", type |-> Undefined, height |-> Undefined]
PrimData == [k |-> "string", type |-> Undefined, height |-> Undefined]

HeightInputs ==
    { Undefined, NaN, Obj, Num(0), Num(-100), Num(100), Num(261), Num(500),
      Num(760), Num(1000), Str(<<"1", "0", "0">>), Str(<<"a", "b", "c">>),
      Str(<<" ">>), Str(<<"-", "1">>), ArrayOf(<<"5", "0", "0">>),
      NumberObject(500), BigInt(10) }

Payloads ==
    { NullData, PrimData,
      Data(Undefined, Undefined),
      Data(Undefined, Num(500)),
      Data(OtherType, Num(500)) }
    \cup { Data(ResizeType, h) : h \in HeightInputs }

\* event.data?.type and event.data?.height
DataType(d) == IF d.k = "object" THEN d.type ELSE Undefined
DataHeight(d) == IF d.k = "object" THEN d.height ELSE Undefined

\* The guard of handleMessage.
Accepts(d) == DataType(d) = ResizeType /\ Truthy(DataHeight(d))

\* NewHeight with the margin left out.
NewHeightNoMargin(d) ==
    MathMin(MathMax(DataHeight(d), Num(MinHeight)), Num(MaxHeight))

\* The value handleMessage passes to setIframeHeight.
NewHeight(d) ==
    MathMin(MathMax(Plus40(DataHeight(d)), Num(MinHeight)), Num(MaxHeight))

\* handleMessage throws on d: the guard passes and `height + 40` throws.
Throws(d) == Accepts(d) /\ Plus40(DataHeight(d)) = TypeError

\* handleMessage never lowering the height: Math.max with the current one.
handleMessageOnlyGrows(h, d) ==
    IF Accepts(d) /\ ~Throws(d) THEN MathMax(h, NewHeight(d)) ELSE h

\* handleMessage: the iframeHeight of a viewer after its listener has run on
\* a message event with data d (unchanged when the guard fails or the
\* handler throws before setIframeHeight).
handleMessage(h, d) == IF Accepts(d) /\ ~Throws(d) THEN NewHeight(d) ELSE h

\* The payloads posted on a page of several viewers.
PagePayloads ==
    { Data(Undefined, Undefined), Data(ResizeType, Num(100)),
      Data(ResizeType, Num(500)) }

\* ------------------------------------------------------------------------
\* Inline HTML and the injected size-reporting script
\* ------------------------------------------------------------------------
CloseBody == <<"<", "/", "b", "o", "d", "y", ">">>

\* The text String.replace puts in place of the first "</body>": the script
\* block followed by the closing tag.  The script body is one text unit; it
\* contains neither "</body>" nor a "$" replacement pattern.
ScriptBlock == <<"<script>", "resize-beacon", "</script>">>
Replacement == ScriptBlock \o CloseBody

OccursAt(t, p, i) ==
    /\ i >= 1
    /\ i + Len(p) - 1 <= Len(t)
    /\ SubSeq(t, i, i + Len(p) - 1) = p

Occurrences(t, p) == { i \in 1..Len(t) : OccursAt(t, p, i) }

\* StringReplace putting the replacement at the end of the text instead of
\* at the place of the match.
StringReplaceAtEnd(t, p, r) ==
    IF Occurrences(t, p) = {} THEN t
    ELSE LET i == CHOOSE j \in Occurrences(t, p) :
                      \A m \in Occurrences(t, p) : j <= m
         IN SubSeq(t, 1, i - 1) \o SubSeq(t, i + Len(p), Len(t)) \o r

\* String.prototype.replace with a string pattern: the first occurrence only.
StringReplace(t, p, r) ==
    IF Occurrences(t, p) = {} THEN t
    ELSE LET i == CHOOSE j \in Occurrences(t, p) :
                      \A m \in Occurrences(t, p) : j <= m
         IN SubSeq(t, 1, i - 1) \o r \o SubSeq(t, i + Len(p), Len(t))

\* enhancedHtml: the srcDoc of the frame for the htmlContent prop.
enhancedHtml(htmlContent) ==
    IF Truthy(htmlContent)
    THEN Str(StringReplace(htmlContent.s, CloseBody, Replacement))
    ELSE Undefined

\* Texts built from at most MaxPieces pieces; "</" followed by "body>" forms
\* the closing tag across two pieces.
Pieces ==
    { CloseBody, <<"<", "/">>, <<"b", "o", "d", "y", ">">>, <<"x">>,
      <<"<", "/", "B", "O", "D", "Y", ">">> }

RECURSIVE Texts(_)
Texts(n) ==
    IF n = 0 THEN { <<>> }
    ELSE Texts(n - 1) \cup { t \o p : t \in Texts(n - 1), p \in Pieces }

HtmlWithBody == <<"<", "b", ">", "x">> \o CloseBody
HtmlNoBody == <<"<", "p", ">", "x">>
HtmlSamples == { Str(HtmlWithBody), Str(HtmlNoBody) }

\* A url is a text whose first unit may be an origin; without one it is
\* relative and resolves against the host page.
HostOrigin == "https://app.test"
OtherOrigin == "https://cdn.test"
SampleUrl == Str(<< OtherOrigin, "/", "u" >>)
LocalUrl == Str(<< "/", "u" >>)

OriginOf(url) ==
    IF url.s # <<>> /\ url.s[1] \in {HostOrigin, OtherOrigin} THEN url.s[1]
    ELSE HostOrigin

\* ------------------------------------------------------------------------
\* The transcript: the store's messages, and the viewer built for each
\* ------------------------------------------------------------------------
\* A message of the store with the fields the program reads (status_log and
\* created_at are only displayed).  An id is << kind, conversation, number >>.
ChatMessage(i, r, c, interactive, html, url) ==
    [id |-> i, role |-> r, content |-> c, has_interactive |-> interactive,
     html_content |-> html, interactive_html_url |-> url]

\* The message the backend holds at position i of conversation c.
StoredMessage(c, i, r, html, url) ==
    ChatMessage(<< "msg", c, i >>, r, << "history" >>,
                Truthy(html) \/ Truthy(url), html, url)

\* An AI message of the first conversation.
Message(i, html, url) == StoredMessage(1, i, "ai", html, url)
TextOnly(i) == Message(i, Undefined, Undefined)

hasHtml(msg) == Truthy(msg.html_content)
hasUrl(msg) == Truthy(msg.interactive_html_url)
isHuman(msg) == msg.role = "human"

\* Every message of the transcript is given a viewer.
HasViewerAlways(msg) == TRUE

\* messages.map: the props of the InteractiveOutput built for a message.
PropsOf(msg) ==
    IF hasHtml(msg)
    THEN [htmlContent |-> msg.html_content, url |-> msg.interactive_html_url]
    ELSE [htmlContent |-> Undefined, url |-> msg.interactive_html_url]

\* messages.map renders a viewer inside the AI branch only.
HasViewer(msg) == ~isHuman(msg) /\ (hasHtml(msg) \/ hasUrl(msg))

VARIABLES
    mounted,       \* the viewers currently mounted
    departed,      \* the viewers unmounted and not mounted again since
    listeners,     \* the viewers whose handleMessage is registered on window
    isExpanded,
    isLoaded,
    iframeHeight,
    frameDoc,      \* the frame's srcdoc and src attributes
    loadPending,   \* the frame is loading a document and has not fired load
    docGen,        \* how many times the frame's document has been replaced
    opened,        \* the document last opened in a new tab by each viewer
    lastAccepted,  \* the data of the last message each viewer's handler applied
    event,         \* the message event dispatched by the latest step, if any
    thrown,        \* the viewers whose handleMessage threw in the latest step
    parentAccess,  \* the viewer whose content scripted the host page in the
                   \* latest step, 0 if none
    \* Home (the page component)
    firebaseUser,  \* Home's firebaseUser is non-null
    loading,       \* Home's loading: no auth callback has arrived yet
    chunk,         \* the dynamic import of Dashboard: none, requested, loaded
    dashboardMounted, \* Dashboard and its ChatView are mounted
    \* the store
    user,
    projects,
    activeProject,
    conversations,
    activeConversation,
    messages,
    sidebarOpen,
    selectedProvider,
    isLoading,
    \* ChatView
    input,
    useDeepResearch,
    statusLog,
    \* calls to the backend awaiting their response
    request,           \* the sendMessage call of handleSend, if any
    projectLoads,      \* the listProjects calls in flight, by whether the
                       \* Dashboard that made them had an active project
    conversationLoads, \* per project, its listConversations calls in flight
    messageLoads,      \* per conversation, its getMessages calls in flight
    activeProjectListed,      \* the active project is the very object that
                              \* projects holds for it
    activeConversationListed, \* the active conversation is the very object
                              \* that conversations holds for it
    showNewProject,    \* Dashboard's showNewProject
    newProjectName,    \* Dashboard's newProjectName
    projectCreates,    \* the createProject calls in flight, by whether the
                       \* Dashboard that called had an active project and
                       \* whether it has unmounted since
    uploads,           \* the runs of handleFileUpload in progress, by the
                       \* number of files each has still to upload
    tokenWaits,        \* per PATCH, the toggleFlag and toggleSave calls that
                       \* await getIdToken
    patchesSent,       \* per PATCH, the requests sent and not yet answered
    projectCount,      \* the number of projects the backend holds
    \* the backend
    stored,        \* the messages the backend holds, by conversation
    flagged,       \* the conversations the backend holds as flagged
    saved,         \* the conversations the backend holds as saved
    patch,         \* the last flag or save PATCH sent, if any
    \* the browser
    now            \* the reading of Date.now(), in milliseconds since the
                   \* page was opened

viewerVars == << mounted, departed, listeners, isExpanded, isLoaded, iframeHeight,
                 frameDoc, loadPending, docGen, opened, lastAccepted, event,
                 thrown, parentAccess >>

homeVars == << firebaseUser, loading, chunk, dashboardMounted >>

storeVars == << user, projects, activeProject, conversations,
                activeConversation, messages, sidebarOpen, selectedProvider,
                isLoading >>

identityVars == << activeProjectListed, activeConversationListed >>

dashVars == << showNewProject, newProjectName >>

composerVars == << input, useDeepResearch, statusLog >>

callVars == << projectCreates, uploads, tokenWaits, patchesSent >>

loadVars == << projectLoads, conversationLoads, messageLoads, callVars >>

backendVars == << stored, flagged, saved, patch, projectCount, now >>

chatVars == << homeVars, storeVars, identityVars, dashVars, composerVars,
               request, loadVars, backendVars >>

vars == << viewerVars, chatVars >>

NoFrame == [srcdoc |-> Undefined, src |-> Undefined]
NoEvent == [src |-> 0, gen |-> 0, data |-> NullData]
MessageEventOf(s, g, d) == [src |-> s, gen |-> g, data |-> d]

\* The viewers the transcript ms has: the positions of its messages that
\* are rendered with an InteractiveOutput.
Eligible(ms) == { v \in 1..Len(ms) : HasViewer(ms[v]) }

props(v) == PropsOf(messages[v])

\* The iframe element as first rendered: srcDoc={enhancedHtml},
\* src={!htmlContent ? url : undefined}.
RenderedFrame(p) ==
    [srcdoc |-> enhancedHtml(p.htmlContent),
     src |-> IF ~Truthy(p.htmlContent) THEN p.url ELSE Undefined]

\* The document the frame shows: srcdoc takes precedence over src.
LoadedDocument(f) == IF f.srcdoc.k # "undefined" THEN f.srcdoc ELSE f.src

\* ------------------------------------------------------------------------
\* Operations of a viewer
\* ------------------------------------------------------------------------

\* A step that dispatches no message event and in which no embedded content
\* reaches the host page; the store and ChatView's state are not touched.
Quiet ==
    /\ event' = NoEvent
    /\ thrown' = {}
    /\ parentAccess' = 0
    /\ UNCHANGED chatVars

\* Unmount leaving the message listener registered (no effect cleanup).
UnmountKeepsListener(v) ==
    /\ v \in mounted
    /\ mounted' = mounted \ {v}
    /\ isExpanded' = [isExpanded EXCEPT ![v] = FALSE]
    /\ isLoaded' = [isLoaded EXCEPT ![v] = FALSE]
    /\ iframeHeight' = [iframeHeight EXCEPT ![v] = Undefined]
    /\ frameDoc' = [frameDoc EXCEPT ![v] = NoFrame]
    /\ loadPending' = [loadPending EXCEPT ![v] = FALSE]
    /\ docGen' = [docGen EXCEPT ![v] = 0]
    /\ lastAccepted' = [lastAccepted EXCEPT ![v] = NullData]
    /\ departed' = departed \cup {v}
    /\ Quiet
    /\ UNCHANGED << listeners, opened >>

\* The component is constructed and mounted: useState initial values, the
\* frame rendered, the message listener registered by the effect.
Mount(v) ==
    /\ v \notin mounted
    /\ v \in Eligible(messages)
    /\ mounted' = mounted \cup {v}
    /\ departed' = departed \ {v}
    /\ listeners' = listeners \cup {v}
    /\ isExpanded' = [isExpanded EXCEPT ![v] = FALSE]
    /\ isLoaded' = [isLoaded EXCEPT ![v] = FALSE]
    /\ iframeHeight' = [iframeHeight EXCEPT ![v] = Num(InitialHeight)]
    /\ frameDoc' = [frameDoc EXCEPT ![v] = RenderedFrame(props(v))]
    /\ loadPending' = [loadPending EXCEPT ![v] = TRUE]
    /\ docGen' = [docGen EXCEPT ![v] = 0]
    /\ lastAccepted' = [lastAccepted EXCEPT ![v] = NullData]
    /\ Quiet
    /\ UNCHANGED opened

\* The component unmounts: the effect's cleanup removes the listener and the
\* component's state and frame are discarded.
Unmount(v) ==
    /\ v \in mounted
    /\ mounted' = mounted \ {v}
    /\ listeners' = listeners \ {v}
    /\ isExpanded' = [isExpanded EXCEPT ![v] = FALSE]
    /\ isLoaded' = [isLoaded EXCEPT ![v] = FALSE]
    /\ iframeHeight' = [iframeHeight EXCEPT ![v] = Undefined]
    /\ frameDoc' = [frameDoc EXCEPT ![v] = NoFrame]
    /\ loadPending' = [loadPending EXCEPT ![v] = FALSE]
    /\ docGen' = [docGen EXCEPT ![v] = 0]
    /\ lastAccepted' = [lastAccepted EXCEPT ![v] = NullData]
    /\ departed' = departed \cup {v}
    /\ Quiet
    /\ UNCHANGED opened

\* The frame attributes after handleRefresh.
RefreshedFrame(f, p) ==
    IF Truthy(p.htmlContent) THEN [f EXCEPT !.srcdoc = p.htmlContent]
    ELSE IF Truthy(p.url) THEN [f EXCEPT !.src = p.url]
    ELSE f

\* handleRefresh also putting iframeHeight back to its initial value.
handleRefreshResetsHeight(v) ==
    /\ v \in mounted
    /\ docGen[v] < MaxReloads
    /\ frameDoc' = [frameDoc EXCEPT ![v] = RefreshedFrame(@, props(v))]
    /\ loadPending' = [loadPending EXCEPT ![v] = TRUE]
    /\ docGen' = [docGen EXCEPT ![v] = @ + 1]
    /\ iframeHeight' = [iframeHeight EXCEPT ![v] = Num(InitialHeight)]
    /\ Quiet
    /\ UNCHANGED << departed, mounted, listeners, isExpanded, isLoaded, opened,
                    lastAccepted >>

\* handleRefresh also marking the viewer loaded.
handleRefreshMarksLoaded(v) ==
    /\ v \in mounted
    /\ docGen[v] < MaxReloads
    /\ frameDoc' = [frameDoc EXCEPT ![v] = RefreshedFrame(@, props(v))]
    /\ loadPending' = [loadPending EXCEPT ![v] = TRUE]
    /\ docGen' = [docGen EXCEPT ![v] = @ + 1]
    /\ isLoaded' = [isLoaded EXCEPT ![v] = TRUE]
    /\ Quiet
    /\ UNCHANGED << departed, mounted, listeners, isExpanded, iframeHeight, opened,
                    lastAccepted >>

\* handleRefresh: the frame's srcdoc or src is assigned again, which replaces
\* the document and starts a new load; no component state is set.
handleRefresh(v) ==
    /\ v \in mounted
    /\ docGen[v] < MaxReloads
    /\ frameDoc' = [frameDoc EXCEPT ![v] = RefreshedFrame(@, props(v))]
    /\ loadPending' = [loadPending EXCEPT ![v] = TRUE]
    /\ docGen' = [docGen EXCEPT ![v] = @ + 1]
    /\ Quiet
    /\ UNCHANGED << departed, mounted, listeners, isExpanded, isLoaded,
                    iframeHeight, opened, lastAccepted >>

\* The frame's load event: onLoad={() => setIsLoaded(true)}.
onLoad(v) ==
    /\ v \in mounted
    /\ loadPending[v]
    /\ loadPending' = [loadPending EXCEPT ![v] = FALSE]
    /\ isLoaded' = [isLoaded EXCEPT ![v] = TRUE]
    /\ Quiet
    /\ UNCHANGED << departed, mounted, listeners, isExpanded, iframeHeight,
                    frameDoc, docGen, opened, lastAccepted >>

\* The state of one viewer, and the toggle button's setIsExpanded(!isExpanded).
ViewerState(v) ==
    [expanded |-> isExpanded[v], loaded |-> isLoaded[v],
     heightPx |-> iframeHeight[v]]

\* toggleExpanded always expanding: setIsExpanded(true).
toggleExpandedOn(st) == [st EXCEPT !.expanded = TRUE]

toggleExpanded(st) == [st EXCEPT !.expanded = ~st.expanded]

\* The frame height of the url-only variant: a fixed 400px when collapsed.
FrameHeightFixed(st) ==
    IF st.expanded THEN Str(<<"calc(100vh - 80px)">>) ELSE Num(400)

\* The height style of the frame.
FrameHeight(st) ==
    IF st.expanded THEN Str(<<"calc(100vh - 80px)">>) ELSE st.heightPx

ToggleClick(v) ==
    /\ v \in mounted
    /\ isExpanded' = [isExpanded EXCEPT ![v] = toggleExpanded(ViewerState(v)).expanded]
    /\ isLoaded' = [isLoaded EXCEPT ![v] = toggleExpanded(ViewerState(v)).loaded]
    /\ iframeHeight' = [iframeHeight EXCEPT ![v] = toggleExpanded(ViewerState(v)).heightPx]
    /\ Quiet
    /\ UNCHANGED << departed, mounted, listeners, frameDoc, loadPending, docGen,
                    opened, lastAccepted >>

\* The expanded backdrop's onClick: setIsExpanded(false).
BackdropClick(v) ==
    /\ v \in mounted
    /\ isExpanded[v]
    /\ isExpanded' = [isExpanded EXCEPT ![v] = FALSE]
    /\ Quiet
    /\ UNCHANGED << departed, mounted, listeners, isLoaded, iframeHeight,
                    frameDoc, loadPending, docGen, opened, lastAccepted >>

\* openInNewTab preferring the url over the inline HTML.
ExternalDocumentPrefersUrl(p) ==
    IF Truthy(p.url) THEN p.url
    ELSE IF Truthy(p.htmlContent) THEN p.htmlContent
    ELSE Undefined

\* The document openInNewTab opens: a blob of htmlContent, or the url.
ExternalDocument(p) ==
    IF Truthy(p.htmlContent) THEN p.htmlContent
    ELSE IF Truthy(p.url) THEN p.url
    ELSE Undefined

\* openInNewTab loading the document into the viewer's own frame as well.
openInNewTabInFrame(v) ==
    /\ v \in mounted
    /\ opened' = [opened EXCEPT ![v] = ExternalDocument(props(v))]
    /\ frameDoc' = [frameDoc EXCEPT ![v] =
                       [srcdoc |-> Undefined, src |-> ExternalDocument(props(v))]]
    /\ loadPending' = [loadPending EXCEPT ![v] = TRUE]
    /\ Quiet
    /\ UNCHANGED << departed, mounted, listeners, isExpanded, isLoaded,
                    iframeHeight, docGen, lastAccepted >>

openInNewTab(v) ==
    /\ v \in mounted
    /\ opened' = [opened EXCEPT ![v] = ExternalDocument(props(v))]
    /\ Quiet
    /\ UNCHANGED << departed, mounted, listeners, isExpanded, isLoaded,
                    iframeHeight, frameDoc, loadPending, docGen, lastAccepted >>

\* The window a message event comes from when it is not the frame of a
\* viewer: the host page itself.
HostWindow == -1

\* The sources of the message events that can arrive and the generations of
\* their documents: the frame of a mounted viewer (its current document or
\* one that a refresh has replaced), a frame removed by an unmount whose
\* message was still in flight, and the host window.
CanPost(s, g) ==
    \/ s \in mounted /\ g \in 0..docGen[s]
    \/ s \in departed /\ g = 0
    \/ s = HostWindow /\ g = 0

\* The viewers whose handleMessage runs on a message event from source s:
\* every listener registered on window, the handler does not look at
\* event.source.
Receivers(s) == listeners

\* The generation a message must have to be of the current document of its
\* source.
CurrentGen(s) == IF s \in mounted THEN docGen[s] ELSE -1

\* A message event that a refresh has made stale is not dispatched to the
\* handlers (a generation check).
MessageEventDropsStale(s, g, d) ==
    /\ CanPost(s, g)
    /\ iframeHeight' =
          [v \in Viewers |->
              IF v \in Receivers(s) /\ g = CurrentGen(s)
              THEN handleMessage(iframeHeight[v], d)
              ELSE iframeHeight[v]]
    /\ lastAccepted' =
          [v \in Viewers |->
              IF v \in Receivers(s) /\ g = CurrentGen(s) /\ Accepts(d) /\ ~Throws(d)
              THEN d ELSE lastAccepted[v]]
    /\ event' = MessageEventOf(s, g, d)
    /\ thrown' = { v \in Receivers(s) : g = CurrentGen(s) /\ Throws(d) }
    /\ parentAccess' = 0
    /\ UNCHANGED << departed, mounted, listeners, isExpanded, isLoaded,
                    frameDoc, loadPending, docGen, opened >>
    /\ UNCHANGED chatVars

\* A message event on the host window, posted with data d by source s (for a
\* viewer, by its document of generation g).  Every registered handler runs
\* on it.
MessageEvent(s, g, d) ==
    /\ CanPost(s, g)
    /\ iframeHeight' =
          [v \in Viewers |->
              IF v \in Receivers(s) THEN handleMessage(iframeHeight[v], d)
              ELSE iframeHeight[v]]
    /\ lastAccepted' =
          [v \in Viewers |->
              IF v \in Receivers(s) /\ Accepts(d) /\ ~Throws(d)
              THEN d ELSE lastAccepted[v]]
    /\ event' = MessageEventOf(s, g, d)
    /\ thrown' = { v \in Receivers(s) : Throws(d) }
    /\ parentAccess' = 0
    /\ UNCHANGED << departed, mounted, listeners, isExpanded, isLoaded,
                    frameDoc, loadPending, docGen, opened >>
    /\ UNCHANGED chatVars

\* The sandbox attribute of the frame.
SandboxTokens == { "allow-scripts", "allow-same-origin", "allow-popups" }

\* The origin of the document in a frame: the host's for a srcdoc document,
\* the url's for a document loaded from src.
FrameOrigin(f) ==
    IF f.srcdoc.k # "undefined" THEN HostOrigin ELSE OriginOf(f.src)

\* The embedded document can reach the host page's DOM: it runs scripts and
\* keeps its origin, and that origin is the host's.
CanScriptParent(v) ==
    /\ v \in mounted
    /\ "allow-scripts" \in SandboxTokens
    /\ "allow-same-origin" \in SandboxTokens
    /\ FrameOrigin(frameDoc[v]) = HostOrigin

\* A script of the embedded document acts on the host page through
\* parent.document: here it clicks the viewer's expand button.
ContentScriptsParent(v) ==
    /\ CanScriptParent(v)
    /\ isExpanded' = [isExpanded EXCEPT ![v] = ~isExpanded[v]]
    /\ parentAccess' = v
    /\ event' = NoEvent
    /\ thrown' = {}
    /\ UNCHANGED << departed, mounted, listeners, isLoaded, iframeHeight,
                    frameDoc, loadPending, docGen, opened, lastAccepted >>
    /\ UNCHANGED chatVars

\* ------------------------------------------------------------------------
\* The store
\* ------------------------------------------------------------------------

Projects == 1..NumProjects
Conversations == 1..NumConversations
Providers == { "gemini", "openai", "anthropic" }

\* The store's state as one record, and the assignment of a new one.
Store ==
    [user |-> user, projects |-> projects, activeProject |-> activeProject,
     conversations |-> conversations,
     activeConversation |-> activeConversation, messages |-> messages,
     sidebarOpen |-> sidebarOpen, selectedProvider |-> selectedProvider,
     isLoading |-> isLoading]

StoreBecomes(st) ==
    /\ user' = st.user
    /\ projects' = st.projects
    /\ activeProject' = st.activeProject
    /\ conversations' = st.conversations
    /\ activeConversation' = st.activeConversation
    /\ messages' = st.messages
    /\ sidebarOpen' = st.sidebarOpen
    /\ selectedProvider' = st.selectedProvider
    /\ isLoading' = st.isLoading

\* addMessage putting the new message in front of the list.
addMessagePrepend(st, m) == [st EXCEPT !.messages = << m >> \o @]

\* The setters: set({ field }) and, for addMessage,
\* set((state) => ({ messages: [...state.messages, message] })).
setUser(st, u) == [st EXCEPT !.user = u]
setProjects(st, ps) == [st EXCEPT !.projects = ps]
setActiveProject(st, p) == [st EXCEPT !.activeProject = p]
setConversations(st, cs) == [st EXCEPT !.conversations = cs]
setActiveConversation(st, c) == [st EXCEPT !.activeConversation = c]
setMessages(st, ms) == [st EXCEPT !.messages = ms]
addMessage(st, m) == [st EXCEPT !.messages = Append(@, m)]
setSidebarOpen(st, b) == [st EXCEPT !.sidebarOpen = b]
setSelectedProvider(st, p) == [st EXCEPT !.selectedProvider = p]
setIsLoading(st, b) == [st EXCEPT !.isLoading = b]

\* ------------------------------------------------------------------------
\* Home, Dashboard and ChatView
\* ------------------------------------------------------------------------

\* What the composer's textarea can hold, as sequences of characters.
InputTexts ==
    { <<>>, << " ", "\n" >>, << "h", "i" >>, << "\t", "h", "i", "\n" >> }

\* The profile onAuthStateChanged stores for a signed-in user.
UserProfile == [signedIn |-> TRUE, planTier |-> "free"]
NoUser == [signedIn |-> FALSE, planTier |-> "none"]
NoConversation == [id |-> 0, is_flagged |-> FALSE, is_saved |-> FALSE]
NoRequest == [pending |-> FALSE]
NoPatch == [sent |-> FALSE]

\* The ids handleSend makes from Date.now() and the ids the backend gives
\* its messages are unique: one send is in flight at a time, so that a round
\* trip to the backend lies between two readings of the clock by handleSend.
\* The id of a new message is the first of its kind that no message of the
\* list ms has.
FreshId(kind, ms) ==
    << kind, 0,
       CHOOSE k \in 1..(Len(ms) + 1) :
          /\ \A i \in 1..Len(ms) : ms[i].id # << kind, 0, k >>
          /\ \A j \in 1..(k - 1) :
                \E i \in 1..Len(ms) : ms[i].id = << kind, 0, j >> >>

ErrorText == << "Something went wrong. Please try again." >>
Reply == << "reply" >>

\* The messages handleSend adds to the list ms.
HumanMessage(ms, text) ==
    ChatMessage(FreshId("temp", ms), "human", text, FALSE, Undefined,
                Undefined)
ErrorMessage(ms) ==
    ChatMessage(FreshId("error", ms), "ai", ErrorText, FALSE, Undefined,
                Undefined)
AiMessage(res) ==
    ChatMessage(res.message_id, "ai", res.content, res.has_interactive,
                res.html_content, res.interactive_html_url)

\* What a response of the backend can carry besides its text: nothing, or
\* inline HTML with a url.
TextBody == [html_content |-> Undefined, interactive_html_url |-> Undefined]
HtmlBody == [html_content |-> Str(HtmlWithBody),
             interactive_html_url |-> SampleUrl]
ReplyBodies == { TextBody, HtmlBody }

\* The response to a send shown in list ms, naming conversation c (0: none).
Response(ms, c, body) ==
    [message_id |-> FreshId("reply", ms), content |-> Reply,
     has_interactive |-> Truthy(body.html_content),
     html_content |-> body.html_content,
     interactive_html_url |-> body.interactive_html_url,
     conversation_id |-> c]

\* The backend: the project a conversation belongs to, the conversation
\* objects listConversations returns for a project, the list listProjects
\* returns and the messages getMessages returns for a conversation.  Every
\* response holds objects of its own: an object of one response is not an
\* object of another, whatever its fields.
ProjectOf(c) == ((c - 1) % NumProjects) + 1

Conversation(c, f, s) == [id |-> c, is_flagged |-> f, is_saved |-> s]

ListedConversations(p) ==
    { Conversation(c, c \in flagged, c \in saved) :
         c \in { x \in Conversations : ProjectOf(x) = p } }

ListedProjects == [i \in 1..projectCount |-> i]

StoredMessages(c) == stored[c]

\* The messages of a backend whose first conversation holds an AI message
\* with inline HTML, whose second holds a human message with inline HTML and
\* whose others hold a text message.
SampleStored ==
    [c \in Conversations |->
        << StoredMessage(c, 1, IF c = 2 THEN "human" ELSE "ai",
                         IF c \in {1, 2} THEN Str(HtmlWithBody) ELSE Undefined,
                         Undefined) >>]

\* Home's render gate: the loading screen until the first auth callback,
\* then the auth page or the dashboard (each a dynamic import that shows
\* nothing until its chunk has arrived).
Screen ==
    IF loading THEN "loading"
    ELSE IF ~firebaseUser THEN "auth"
    ELSE "dashboard"

\* ChatView renders its header, transcript and composer only with an active
\* project.
ChatShown == dashboardMounted /\ activeProject # 0

\* The transcript ChatView renders.
RenderedList(dash, project, ms) == IF dash /\ project # 0 THEN ms ELSE <<>>

\* React commits the render that follows the step: the viewer of a message
\* is kept, with its state, when a message of the same key (id) had a viewer
\* before; the other viewers of the old list unmount and the other viewers
\* of the new list mount.
Renders ==
    LET old == RenderedList(dashboardMounted, activeProject, messages)
        new == RenderedList(dashboardMounted', activeProject', messages')
        keeps(v) == { w \in Eligible(old) \cap mounted : old[w].id = new[v].id }
        kept(v) == v \in Eligible(new) /\ keeps(v) # {}
        from(v) == CHOOSE w \in keeps(v) : TRUE
        stays == { w \in mounted :
                     \E v \in Eligible(new) : kept(v) /\ from(v) = w }
    IN /\ mounted' = Eligible(new)
       /\ departed' = (departed \cup (mounted \ stays)) \ Eligible(new)
       /\ listeners' = { v \in Eligible(new) :
                           kept(v) => from(v) \in listeners }
       /\ isExpanded' = [v \in Viewers |-> kept(v) /\ isExpanded[from(v)]]
       /\ isLoaded' = [v \in Viewers |-> kept(v) /\ isLoaded[from(v)]]
       /\ iframeHeight' =
             [v \in Viewers |->
                 IF kept(v) THEN iframeHeight[from(v)]
                 ELSE IF v \in Eligible(new) THEN Num(InitialHeight)
                 ELSE Undefined]
       /\ frameDoc' =
             [v \in Viewers |->
                 IF kept(v) THEN frameDoc[from(v)]
                 ELSE IF v \in Eligible(new) THEN RenderedFrame(PropsOf(new[v]))
                 ELSE NoFrame]
       /\ loadPending' =
             [v \in Viewers |->
                 IF kept(v) THEN loadPending[from(v)] ELSE v \in Eligible(new)]
       /\ docGen' = [v \in Viewers |-> IF kept(v) THEN docGen[from(v)] ELSE 0]
       /\ lastAccepted' =
             [v \in Viewers |->
                 IF kept(v) THEN lastAccepted[from(v)] ELSE NullData]
       /\ opened' = opened
       /\ event' = NoEvent
       /\ thrown' = {}
       /\ parentAccess' = 0

\* The body handleSend passes to sendMessage, with the ChatView instance
\* that awaits the response (gone when the user has signed out meanwhile)
\* and the number of progress timers that have fired.
SendRequest(text, project, conversation, provider, deep) ==
    [pending |-> TRUE, message |-> text, project_id |-> project,
     conversation_id |-> conversation, provider |-> provider,
     use_deep_research |-> deep, viewGone |-> FALSE, timersFired |-> 0]

\* One more call in flight, one call fewer, no call, and the number of
\* calls in flight.
Issued(loads, x) == [loads EXCEPT ![x] = @ + 1]
Settled(loads, x) == [loads EXCEPT ![x] = @ - 1]
NoCalls(S) == [x \in S |-> 0]
InFlight(loads) ==
    Cardinality({ c \in (DOMAIN loads) \X (1..(2 * MaxLoads)) :
                    c[2] <= loads[c[1]] })

\* The PATCH that toggleFlag or toggleSave sends.
Patch(c, field, value) ==
    [sent |-> TRUE, conversation |-> c, field |-> field, value |-> value]

PatchCalls ==
    { Patch(c, f, v) :
         c \in Conversations, f \in {"is_flagged", "is_saved"},
         v \in BOOLEAN }

\* The createProject calls: whether the Dashboard that called had an active
\* project, and whether it has unmounted since.
CreateCalls == BOOLEAN \X BOOLEAN

\* The name of the file uploaded and the text of its message.
FileName == "notes.pdf"
UploadText(name) == << "U+1F4CE Uploaded: " \o name >>

\* The message handleFileUpload adds for an uploaded file when the clock
\* reads t: its id is `upload-${Date.now()}`, the same for two uploads
\* answered in the same millisecond.
UploadMessage(t, name) ==
    ChatMessage(<< "upload", 0, t >>, "human", UploadText(name), FALSE,
                Undefined, Undefined)

\* ChatView's effect on [activeConversation], run when the view mounts and
\* when the active conversation changes to c while it is mounted:
\* loadMessages() is started, or the list is emptied when there is none.
ConversationEffect(st, c) ==
    /\ c.id # 0 => messageLoads[c.id] < MaxLoads
    /\ StoreBecomes(IF c.id = 0 THEN setMessages(st, <<>>) ELSE st)
    /\ messageLoads' = IF c.id = 0 THEN messageLoads
                       ELSE Issued(messageLoads, c.id)

\* Dashboard and its ChatView mount on store st and their effects run:
\* ChatView's effect on the active conversation, loadProjects(), and
\* loadConversations() when a project is active.
DashboardMounts(st) ==
    /\ projectLoads[st.activeProject # 0] < MaxLoads
    /\ st.activeProject # 0 => conversationLoads[st.activeProject] < MaxLoads
    /\ dashboardMounted' = TRUE
    /\ ConversationEffect(st, st.activeConversation)
    /\ projectLoads' = Issued(projectLoads, st.activeProject # 0)
    /\ conversationLoads' =
          IF st.activeProject # 0
          THEN Issued(conversationLoads, st.activeProject)
          ELSE conversationLoads
    /\ UNCHANGED << dashVars, composerVars, request, callVars >>

\* Dashboard and its ChatView unmount: their local state is initial at the
\* next mount, and a send or a createProject in flight settles on the
\* instance that is gone.
DashboardUnmounts ==
    /\ dashboardMounted' = FALSE
    /\ showNewProject' = FALSE
    /\ newProjectName' = <<>>
    /\ input' = <<>>
    /\ useDeepResearch' = FALSE
    /\ statusLog' = <<>>
    /\ request' = IF request.pending
                  THEN [request EXCEPT !.viewGone = TRUE] ELSE request
    /\ projectCreates' =
          [c \in CreateCalls |->
              IF c[2] THEN projectCreates[c] + projectCreates[<< c[1], FALSE >>]
              ELSE 0]
    /\ UNCHANGED << projectLoads, conversationLoads, messageLoads, uploads,
                    tokenWaits, patchesSent >>

\* onAuthStateChanged without setUser(null) on sign-out.
onAuthStateChangedKeepsUser(signedIn) ==
    /\ loading \/ signedIn # firebaseUser
    /\ firebaseUser' = signedIn
    /\ loading' = FALSE
    /\ IF signedIn
       THEN IF chunk = "loaded"
            THEN /\ DashboardMounts(setUser(Store, UserProfile))
                 /\ chunk' = chunk
            ELSE /\ StoreBecomes(setUser(Store, UserProfile))
                 /\ chunk' = "requested"
                 /\ UNCHANGED << dashboardMounted, dashVars, composerVars,
                                 request, loadVars >>
       ELSE /\ StoreBecomes(Store)
            /\ DashboardUnmounts
            /\ chunk' = chunk
    /\ UNCHANGED << identityVars, backendVars >>
    /\ Renders

\* Firebase reports the auth state.  Home stores a profile, or null, and
\* leaves the loading screen.  With a user it renders Dashboard, which
\* mounts at once when its chunk has been loaded before and is requested
\* otherwise; without a user Dashboard unmounts.
onAuthStateChanged(signedIn) ==
    /\ loading \/ signedIn # firebaseUser
    /\ firebaseUser' = signedIn
    /\ loading' = FALSE
    /\ IF signedIn
       THEN IF chunk = "loaded"
            THEN /\ DashboardMounts(setUser(Store, UserProfile))
                 /\ chunk' = chunk
            ELSE /\ StoreBecomes(setUser(Store, UserProfile))
                 /\ chunk' = "requested"
                 /\ UNCHANGED << dashboardMounted, dashVars, composerVars,
                                 request, loadVars >>
       ELSE /\ StoreBecomes(setUser(Store, NoUser))
            /\ DashboardUnmounts
            /\ chunk' = chunk
    /\ UNCHANGED << identityVars, backendVars >>
    /\ Renders

\* The chunk of Dashboard arrives: Dashboard mounts if Home still renders it.
importDashboardResolves ==
    /\ chunk = "requested"
    /\ chunk' = "loaded"
    /\ IF Screen = "dashboard"
       THEN DashboardMounts(Store)
       ELSE UNCHANGED << dashboardMounted, storeVars, dashVars, composerVars,
                         request, loadVars >>
    /\ UNCHANGED << firebaseUser, loading, identityVars, backendVars >>
    /\ Renders

\* loadProjects resolves: setProjects(data), and setActiveProject(data[0])
\* when the Dashboard that called it had no active project; Dashboard's
\* effect on [activeProject] then starts loadConversations.  The list holds
\* new objects: an active project that is kept is none of them.
loadProjectsResolves(l) ==
    /\ projectLoads[l] > 0
    /\ projectLoads' = Settled(projectLoads, l)
    /\ IF Len(ListedProjects) > 0 /\ ~l
       THEN /\ StoreBecomes(setActiveProject(setProjects(Store, ListedProjects),
                                             ListedProjects[1]))
            /\ activeProjectListed' = TRUE
            /\ IF dashboardMounted
               THEN /\ conversationLoads[ListedProjects[1]] < MaxLoads
                    /\ conversationLoads' =
                          Issued(conversationLoads, ListedProjects[1])
               ELSE UNCHANGED conversationLoads
       ELSE /\ StoreBecomes(setProjects(Store, ListedProjects))
            /\ activeProjectListed' = FALSE
            /\ UNCHANGED conversationLoads
    /\ UNCHANGED << homeVars, activeConversationListed, dashVars, composerVars, request,
                    messageLoads, callVars, backendVars >>
    /\ Renders

\* loadProjects rejects: the error is logged.
loadProjectsRejects(l) ==
    /\ projectLoads[l] > 0
    /\ projectLoads' = Settled(projectLoads, l)
    /\ UNCHANGED << homeVars, identityVars, dashVars, storeVars, composerVars,
                    request, conversationLoads, messageLoads, callVars,
                    backendVars >>
    /\ Renders

\* loadConversations(p) resolves: setConversations(data), a list of new
\* objects.
loadConversationsResolves(p) ==
    /\ conversationLoads[p] > 0
    /\ conversationLoads' = Settled(conversationLoads, p)
    /\ StoreBecomes(setConversations(Store, ListedConversations(p)))
    /\ activeConversationListed' = FALSE
    /\ UNCHANGED << homeVars, activeProjectListed, dashVars, composerVars, request,
                    projectLoads, messageLoads, callVars, backendVars >>
    /\ Renders

\* loadConversations(p) rejects: the error is logged.
loadConversationsRejects(p) ==
    /\ conversationLoads[p] > 0
    /\ conversationLoads' = Settled(conversationLoads, p)
    /\ UNCHANGED << homeVars, identityVars, dashVars, storeVars, composerVars,
                    request, projectLoads, messageLoads, callVars,
                    backendVars >>
    /\ Renders

\* A project of the sidebar is clicked: setActiveProject(project), and
\* Dashboard's effect on [activeProject] starts loadConversations for it
\* unless the project clicked is the very object that is active already.
selectProject(p) ==
    /\ dashboardMounted
    /\ sidebarOpen
    /\ \E i \in 1..Len(projects) : projects[i] = p
    /\ p # activeProject \/ ~activeProjectListed
    /\ conversationLoads[p] < MaxLoads
    /\ StoreBecomes(setActiveProject(Store, p))
    /\ activeProjectListed' = TRUE
    /\ conversationLoads' = Issued(conversationLoads, p)
    /\ UNCHANGED << homeVars, activeConversationListed, dashVars, composerVars, request,
                    projectLoads, messageLoads, callVars, backendVars >>
    /\ Renders

\* A conversation of the sidebar is clicked: setActiveConversation(conv), and
\* ChatView's effect on [activeConversation] starts loadMessages for it
\* unless the conversation clicked is the very object that is active already.
selectConversation(conv) ==
    /\ dashboardMounted
    /\ sidebarOpen
    /\ activeProject # 0
    /\ conv \in conversations
    /\ conv # activeConversation \/ ~activeConversationListed
    /\ ConversationEffect(setActiveConversation(Store, conv), conv)
    /\ activeConversationListed' = TRUE
    /\ UNCHANGED << homeVars, activeProjectListed, dashVars, composerVars, request,
                    projectLoads, conversationLoads, callVars, backendVars >>
    /\ Renders

\* The New Chat button: setActiveConversation(null) and setMessages([]).
newChat ==
    /\ dashboardMounted
    /\ sidebarOpen
    /\ StoreBecomes(setMessages(setActiveConversation(Store, NoConversation),
                                <<>>))
    /\ activeConversationListed' = FALSE
    /\ UNCHANGED << homeVars, activeProjectListed, dashVars, composerVars, request,
                    loadVars, backendVars >>
    /\ Renders

\* loadMessages for conversation c resolves:
\* setMessages(await getMessages(activeConversation.id)).
loadMessagesResolves(c) ==
    /\ messageLoads[c] > 0
    /\ messageLoads' = Settled(messageLoads, c)
    /\ StoreBecomes(setMessages(Store, StoredMessages(c)))
    /\ UNCHANGED << homeVars, identityVars, dashVars, composerVars, request,
                    projectLoads, conversationLoads, callVars, backendVars >>
    /\ Renders

\* loadMessages for conversation c rejects: the error is logged.
loadMessagesRejects(c) ==
    /\ messageLoads[c] > 0
    /\ messageLoads' = Settled(messageLoads, c)
    /\ UNCHANGED << homeVars, identityVars, dashVars, storeVars, composerVars,
                    request, projectLoads, conversationLoads, callVars,
                    backendVars >>
    /\ Renders

\* The sidebar's close button and the header's open button.
toggleSidebar ==
    /\ dashboardMounted
    /\ StoreBecomes(setSidebarOpen(Store, ~sidebarOpen))
    /\ UNCHANGED << homeVars, identityVars, dashVars, composerVars, request,
                    loadVars, backendVars >>
    /\ Renders

\* The provider select's onChange: setSelectedProvider(e.target.value).
onProviderChange(p) ==
    /\ ChatShown
    /\ StoreBecomes(setSelectedProvider(Store, p))
    /\ UNCHANGED << homeVars, identityVars, dashVars, composerVars, request,
                    loadVars, backendVars >>
    /\ Renders

\* The textarea's onChange: setInput(e.target.value).
onInputChange(t) ==
    /\ ChatShown
    /\ input' = t
    /\ UNCHANGED << homeVars, identityVars, dashVars, storeVars,
                    useDeepResearch, statusLog, request, loadVars,
                    backendVars >>
    /\ Renders

\* The Deep Research button: setUseDeepResearch(!useDeepResearch).
toggleDeepResearch ==
    /\ ChatShown
    /\ useDeepResearch' = ~useDeepResearch
    /\ UNCHANGED << homeVars, identityVars, dashVars, storeVars, input,
                    statusLog, request, loadVars, backendVars >>
    /\ Renders

\* handleSend without the isLoading test in its guard.
handleSendWhileLoading ==
    /\ ChatShown
    /\ ~(Trim(input) = <<>> \/ activeProject = 0)
    /\ Len(messages) + 2 <= MaxMessages
    /\ input' = <<>>
    /\ statusLog' = << "analyzing" >>
    /\ StoreBecomes(addMessage(setIsLoading(Store, TRUE),
                               HumanMessage(messages, Trim(input))))
    /\ request' = SendRequest(Trim(input), activeProject,
                              activeConversation.id, selectedProvider,
                              useDeepResearch)
    /\ UNCHANGED << homeVars, identityVars, dashVars, useDeepResearch,
                    loadVars, backendVars >>
    /\ Renders

\* handleSend up to its await: the guard, the composer cleared, the loading
\* flag raised, the human message appended and the request issued.
handleSend ==
    /\ ChatShown
    /\ ~(Trim(input) = <<>> \/ activeProject = 0 \/ isLoading)
    /\ Len(messages) + 2 <= MaxMessages
    /\ input' = <<>>
    /\ statusLog' = << "analyzing" >>
    /\ StoreBecomes(addMessage(setIsLoading(Store, TRUE),
                               HumanMessage(messages, Trim(input))))
    /\ request' = SendRequest(Trim(input), activeProject,
                              activeConversation.id, selectedProvider,
                              useDeepResearch)
    /\ UNCHANGED << homeVars, identityVars, dashVars, useDeepResearch,
                    loadVars, backendVars >>
    /\ Renders

\* One of handleSend's two progress timers fires while the request is pending.
logTimer ==
    /\ request.pending
    /\ request.timersFired < 2
    /\ request' = [request EXCEPT !.timersFired = @ + 1]
    /\ statusLog' = IF request.viewGone THEN statusLog
                    ELSE Append(statusLog,
                                IF request.timersFired = 0 THEN "generating"
                                ELSE "building")
    /\ UNCHANGED << homeVars, identityVars, dashVars, storeVars, input,
                    useDeepResearch, loadVars, backendVars >>
    /\ Renders

\* The conversation ids a response to the pending request can name: the
\* request's own, or for a request without one a conversation the backend
\* created in the request's project (0: the response names none).
ResponseConversations ==
    IF request.conversation_id # 0 THEN {request.conversation_id}
    ELSE {0} \cup { c \in Conversations : ProjectOf(c) = request.project_id }

\* sendMessage resolves with a response naming conversation c and carrying
\* body b: the reply is appended with the response's id, text, HTML and url,
\* a new object for the conversation becomes the active one when handleSend
\* started without one (ChatView's effect then starts loadMessages for
\* it), and the finally
\* block lowers the loading flag and empties the status log.
sendResolves(c, b) ==
    /\ request.pending
    /\ c \in ResponseConversations
    /\ StoreBecomes(
          setIsLoading(
             IF request.conversation_id = 0 /\ c # 0
             THEN setActiveConversation(
                     addMessage(Store, AiMessage(Response(messages, c, b))),
                     Conversation(c, FALSE, FALSE))
             ELSE addMessage(Store, AiMessage(Response(messages, c, b))),
             FALSE))
    /\ IF request.conversation_id = 0 /\ c # 0 /\ dashboardMounted
       THEN /\ messageLoads[c] < MaxLoads
            /\ messageLoads' = Issued(messageLoads, c)
       ELSE UNCHANGED messageLoads
    /\ activeConversationListed' =
          (activeConversationListed /\ ~(request.conversation_id = 0 /\ c # 0))
    /\ statusLog' = IF request.viewGone THEN statusLog ELSE <<>>
    /\ request' = NoRequest
    /\ UNCHANGED << homeVars, activeProjectListed, dashVars, input, useDeepResearch,
                    projectLoads, conversationLoads, callVars, backendVars >>
    /\ Renders

\* sendRejects without the finally block.
sendRejectsKeepsLoading ==
    /\ request.pending
    /\ StoreBecomes(addMessage(Store, ErrorMessage(messages)))
    /\ request' = NoRequest
    /\ UNCHANGED << homeVars, identityVars, dashVars, composerVars, loadVars,
                    backendVars >>
    /\ Renders

\* sendMessage rejects: the catch block appends the error message and the
\* finally block lowers the loading flag and empties the status log.
sendRejects ==
    /\ request.pending
    /\ StoreBecomes(setIsLoading(addMessage(Store, ErrorMessage(messages)),
                                 FALSE))
    /\ statusLog' = IF request.viewGone THEN statusLog ELSE <<>>
    /\ request' = NoRequest
    /\ UNCHANGED << homeVars, identityVars, dashVars, input, useDeepResearch,
                    loadVars, backendVars >>
    /\ Renders

\* The flag button: toggleFlag(activeConversation.id,
\* !activeConversation.is_flagged).  The call awaits getIdToken before it
\* sends anything, and nothing awaits the call.
toggleFlagClick ==
    /\ ChatShown
    /\ activeConversation.id # 0
    /\ InFlight(tokenWaits) + InFlight(patchesSent) < MaxLoads
    /\ tokenWaits' =
          Issued(tokenWaits, Patch(activeConversation.id, "is_flagged",
                                   ~activeConversation.is_flagged))
    /\ UNCHANGED << homeVars, identityVars, dashVars, storeVars, composerVars,
                    request, projectLoads, conversationLoads, messageLoads,
                    projectCreates, uploads, patchesSent, backendVars >>
    /\ Renders

\* The save button: toggleSave(activeConversation.id,
\* !activeConversation.is_saved).
toggleSaveClick ==
    /\ ChatShown
    /\ activeConversation.id # 0
    /\ InFlight(tokenWaits) + InFlight(patchesSent) < MaxLoads
    /\ tokenWaits' =
          Issued(tokenWaits, Patch(activeConversation.id, "is_saved",
                                   ~activeConversation.is_saved))
    /\ UNCHANGED << homeVars, identityVars, dashVars, storeVars, composerVars,
                    request, projectLoads, conversationLoads, messageLoads,
                    projectCreates, uploads, patchesSent, backendVars >>
    /\ Renders

\* getIdToken resolves for a toggleFlag or toggleSave call: authFetch sends
\* the PATCH p.
authFetchSends(p) ==
    /\ tokenWaits[p] > 0
    /\ tokenWaits' = Settled(tokenWaits, p)
    /\ patchesSent' = Issued(patchesSent, p)
    /\ patch' = p
    /\ UNCHANGED << homeVars, identityVars, dashVars, storeVars, composerVars,
                    request, projectLoads, conversationLoads, messageLoads,
                    projectCreates, uploads, stored, flagged, saved,
                    projectCount, now >>
    /\ Renders

\* getIdToken rejects: the call ends with nothing sent.
getIdTokenRejects(p) ==
    /\ tokenWaits[p] > 0
    /\ tokenWaits' = Settled(tokenWaits, p)
    /\ UNCHANGED << homeVars, identityVars, dashVars, storeVars, composerVars,
                    request, projectLoads, conversationLoads, messageLoads,
                    projectCreates, uploads, patchesSent, backendVars >>
    /\ Renders

\* The backend applies the PATCH p and answers; the answer is dropped.
patchApplied(p) ==
    /\ patchesSent[p] > 0
    /\ patchesSent' = Settled(patchesSent, p)
    /\ flagged' = IF p.field # "is_flagged" THEN flagged
                  ELSE IF p.value THEN flagged \cup {p.conversation}
                  ELSE flagged \ {p.conversation}
    /\ saved' = IF p.field # "is_saved" THEN saved
                ELSE IF p.value THEN saved \cup {p.conversation}
                ELSE saved \ {p.conversation}
    /\ UNCHANGED << homeVars, identityVars, dashVars, storeVars, composerVars,
                    request, projectLoads, conversationLoads, messageLoads,
                    projectCreates, uploads, tokenWaits, stored, patch,
                    projectCount, now >>
    /\ Renders

\* The PATCH p does not reach the backend, or the backend refuses it.
patchFails(p) ==
    /\ patchesSent[p] > 0
    /\ patchesSent' = Settled(patchesSent, p)
    /\ UNCHANGED << homeVars, identityVars, dashVars, storeVars, composerVars,
                    request, projectLoads, conversationLoads, messageLoads,
                    projectCreates, uploads, tokenWaits, backendVars >>
    /\ Renders

\* The sidebar's "+" button: setShowNewProject(!showNewProject).
toggleNewProject ==
    /\ dashboardMounted
    /\ sidebarOpen
    /\ showNewProject' = ~showNewProject
    /\ UNCHANGED << homeVars, identityVars, newProjectName, storeVars,
                    composerVars, request, loadVars, backendVars >>
    /\ Renders

\* The project name input's onChange: setNewProjectName(e.target.value).
onProjectNameChange(t) ==
    /\ dashboardMounted
    /\ sidebarOpen
    /\ showNewProject
    /\ newProjectName' = t
    /\ UNCHANGED << homeVars, identityVars, showNewProject, storeVars,
                    composerVars, request, loadVars, backendVars >>
    /\ Renders

\* Enter in the project name input: handleCreateProject up to its await.
\* It returns at once for a name that is empty when trimmed.
handleCreateProject ==
    /\ dashboardMounted
    /\ sidebarOpen
    /\ showNewProject
    /\ Trim(newProjectName) # <<>>
    /\ InFlight(projectCreates) < MaxLoads
    /\ projectCount + InFlight(projectCreates) < NumProjects
    /\ projectCreates' = Issued(projectCreates, << activeProject # 0, FALSE >>)
    /\ UNCHANGED << homeVars, identityVars, dashVars, storeVars, composerVars,
                    request, projectLoads, conversationLoads, messageLoads,
                    uploads, tokenWaits, patchesSent, backendVars >>
    /\ Renders

\* createProject resolves for the call c: the backend holds one project
\* more, the form is emptied and closed (when its Dashboard is still the one
\* mounted) and loadProjects() is called again.
createProjectResolves(c) ==
    /\ projectCreates[c] > 0
    /\ projectLoads[c[1]] < MaxLoads
    /\ projectCreates' = Settled(projectCreates, c)
    /\ projectCount' = projectCount + 1
    /\ newProjectName' = IF c[2] THEN newProjectName ELSE <<>>
    /\ showNewProject' = IF c[2] THEN showNewProject ELSE FALSE
    /\ projectLoads' = Issued(projectLoads, c[1])
    /\ UNCHANGED << homeVars, identityVars, storeVars, composerVars, request,
                    conversationLoads, messageLoads, uploads, tokenWaits,
                    patchesSent, stored, flagged, saved, patch, now >>
    /\ Renders

\* createProject rejects: the error is logged.
createProjectRejects(c) ==
    /\ projectCreates[c] > 0
    /\ projectCreates' = Settled(projectCreates, c)
    /\ UNCHANGED << homeVars, identityVars, dashVars, storeVars, composerVars,
                    request, projectLoads, conversationLoads, messageLoads,
                    uploads, tokenWaits, patchesSent, backendVars >>
    /\ Renders

\* Files are dropped on the chat or chosen in the file input:
\* handleFileUpload(files) with n files, up to the await of the first
\* upload.
handleFileUpload(n) ==
    /\ ChatShown
    /\ InFlight(uploads) < MaxLoads
    /\ uploads' = Issued(uploads, n)
    /\ UNCHANGED << homeVars, identityVars, dashVars, storeVars, composerVars,
                    request, projectLoads, conversationLoads, messageLoads,
                    projectCreates, tokenWaits, patchesSent, backendVars >>
    /\ Renders

\* The number of runs per number of files left, after a run with k files
\* left has settled one upload.
NextFile(k) ==
    IF k = 1 THEN Settled(uploads, 1)
    ELSE Issued(Settled(uploads, k), k - 1)

\* A millisecond passes.
clockTicks ==
    /\ now < MaxClock
    /\ now' = now + 1
    /\ UNCHANGED << viewerVars, homeVars, storeVars, identityVars, dashVars,
                    composerVars, request, loadVars, stored, flagged, saved,
                    patch, projectCount >>

\* uploadFile resolves in a run with k files left: the upload message, whose
\* id is made from the clock's reading, is added and the next file's upload
\* starts.
uploadResolves(k) ==
    /\ uploads[k] > 0
    /\ Len(messages) + (IF request.pending THEN 1 ELSE 0) < MaxMessages
    /\ uploads' = NextFile(k)
    /\ StoreBecomes(addMessage(Store, UploadMessage(now, FileName)))
    /\ UNCHANGED << homeVars, identityVars, dashVars, composerVars, request,
                    projectLoads, conversationLoads, messageLoads,
                    projectCreates, tokenWaits, patchesSent, backendVars >>
    /\ Renders

\* uploadFile rejects: the error is logged and the next file's upload
\* starts.
uploadRejects(k) ==
    /\ uploads[k] > 0
    /\ uploads' = NextFile(k)
    /\ UNCHANGED << homeVars, identityVars, dashVars, storeVars, composerVars,
                    request, projectLoads, conversationLoads, messageLoads,
                    projectCreates, tokenWaits, patchesSent, backendVars >>
    /\ Renders

\* ------------------------------------------------------------------------
\* Initial states
\* ------------------------------------------------------------------------

\* No call is in flight and the new-project form is closed.
InitIdle ==
    /\ showNewProject = FALSE
    /\ newProjectName = <<>>
    /\ request = NoRequest
    /\ projectLoads = [b \in BOOLEAN |-> 0]
    /\ conversationLoads = [p \in Projects |-> 0]
    /\ messageLoads = [c \in Conversations |-> 0]
    /\ projectCreates = NoCalls(CreateCalls)
    /\ uploads = NoCalls(1..MaxFiles)
    /\ tokenWaits = NoCalls(PatchCalls)
    /\ patchesSent = NoCalls(PatchCalls)
    /\ patch = NoPatch
    /\ now = 0

\* The store's initial values, Home's, Dashboard's and ChatView's useState
\* initial values, nothing imported, no call in flight and a backend with
\* no conversation flagged or saved, of a new account (no project) or of an
\* account with projects.
InitStore ==
    /\ firebaseUser = FALSE
    /\ loading = TRUE
    /\ chunk = "none"
    /\ dashboardMounted = FALSE
    /\ user = NoUser
    /\ projects = <<>>
    /\ activeProject = 0
    /\ conversations = {}
    /\ activeConversation = NoConversation
    /\ messages = <<>>
    /\ sidebarOpen = TRUE
    /\ selectedProvider = "gemini"
    /\ isLoading = FALSE
    /\ input = <<>>
    /\ useDeepResearch = FALSE
    /\ statusLog = <<>>
    /\ activeProjectListed = FALSE
    /\ activeConversationListed = FALSE
    /\ InitIdle
    /\ projectCount \in {0, NumProjects}
    /\ flagged = {}
    /\ saved = {}

\* No viewer has been mounted.
InitViewers ==
    /\ mounted = {}
    /\ departed = {}
    /\ listeners = {}
    /\ isExpanded = [v \in Viewers |-> FALSE]
    /\ isLoaded = [v \in Viewers |-> FALSE]
    /\ iframeHeight = [v \in Viewers |-> Undefined]
    /\ frameDoc = [v \in Viewers |-> NoFrame]
    /\ loadPending = [v \in Viewers |-> FALSE]
    /\ docGen = [v \in Viewers |-> 0]
    /\ opened = [v \in Viewers |-> Undefined]
    /\ lastAccepted = [v \in Viewers |-> NullData]
    /\ event = NoEvent
    /\ thrown = {}
    /\ parentAccess = 0

\* The application as loaded in the browser, with the sample backend.
InitChat ==
    /\ stored = SampleStored
    /\ InitStore
    /\ InitViewers

\* The user is signed in, the first conversation of the first project has
\* been chosen in the sidebar and its messages, the transcript t, have been
\* fetched; React has not yet committed the viewers of the transcript.
InitLoaded(t) ==
    /\ stored = [c \in Conversations |-> IF c = 1 THEN t ELSE SampleStored[c]]
    /\ firebaseUser = TRUE
    /\ loading = FALSE
    /\ chunk = "loaded"
    /\ dashboardMounted = TRUE
    /\ user = UserProfile
    /\ projectCount = NumProjects
    /\ projects = ListedProjects
    /\ activeProjectListed = TRUE
    /\ activeConversationListed = TRUE
    /\ activeProject = ProjectOf(1)
    /\ conversations = { Conversation(c, FALSE, FALSE) :
                            c \in { x \in Conversations :
                                       ProjectOf(x) = ProjectOf(1) } }
    /\ activeConversation = Conversation(1, FALSE, FALSE)
    /\ messages = t
    /\ sidebarOpen = TRUE
    /\ selectedProvider = "gemini"
    /\ isLoading = FALSE
    /\ input = <<>>
    /\ useDeepResearch = FALSE
    /\ statusLog = <<>>
    /\ InitIdle
    /\ flagged = {}
    /\ saved = {}
    /\ InitViewers

\* A human message that carries inline HTML: it is shown as a text bubble.
HumanWithHtml(i) == StoredMessage(1, i, "human", Str(HtmlNoBody), Undefined)

\* A transcript with one interactive message, followed by a human message
\* and by text messages.
Init ==
    \E h \in {Undefined} \cup HtmlSamples,
       u \in {Undefined, SampleUrl, LocalUrl} :
        /\ HasViewer(Message(1, h, u))
        /\ u = LocalUrl => h = Undefined
        /\ InitLoaded([v \in 1..NumViewers |->
                          IF v = 1 THEN Message(1, h, u)
                          ELSE IF v = 2 THEN HumanWithHtml(v)
                          ELSE TextOnly(v)])

\* A transcript whose messages are all interactive.
InitPage ==
    \E b \in { [html |-> Str(HtmlWithBody), url |-> Undefined],
               [html |-> Undefined, url |-> SampleUrl] } :
        InitLoaded([v \in 1..NumViewers |-> Message(v, b.html, b.url)])

\* A transcript with one interactive message carrying any inline HTML.
InitResolve ==
    \E t \in Texts(MaxPieces) :
        InitLoaded([v \in 1..NumViewers |->
                       IF v = 1 THEN Message(1, Str(t), SampleUrl)
                       ELSE TextOnly(v)])

\* ------------------------------------------------------------------------
\* Next-state relations and specifications
\* ------------------------------------------------------------------------
ViewerStep(v, P) ==
    \/ Mount(v)
    \/ Unmount(v)
    \/ handleRefresh(v)
    \/ onLoad(v)
    \/ ToggleClick(v)
    \/ BackdropClick(v)
    \/ openInNewTab(v)
    \/ ContentScriptsParent(v)
    \/ \E d \in P, g \in 0..MaxReloads : MessageEvent(v, g, d)

\* A script of the host page posts a message to its own window.
HostPosts == \E d \in PagePayloads : MessageEvent(HostWindow, 0, d)

Next == (\E v \in Viewers : ViewerStep(v, Payloads)) \/ HostPosts

NextPage == (\E v \in Viewers : ViewerStep(v, PagePayloads)) \/ HostPosts

NextLifecycle ==
    \/ \E v \in Viewers :
          \/ Mount(v)
          \/ Unmount(v)
          \/ openInNewTab(v)
          \/ \E d \in PagePayloads, g \in 0..MaxReloads : MessageEvent(v, g, d)
    \/ HostPosts

NextResolve == \E v \in Viewers : Mount(v)

Spec == Init /\ [][Next]_vars
SpecPage == InitPage /\ [][NextPage]_vars
SpecLifecycle == InitPage /\ [][NextLifecycle]_vars
SpecResolve == InitResolve /\ [][NextResolve]_vars

\* Signing in and out, choosing a project, composing and sending.
NextChat ==
    \/ \E b \in BOOLEAN : onAuthStateChanged(b)
    \/ importDashboardResolves
    \/ \E l \in BOOLEAN : loadProjectsResolves(l)
    \/ \E t \in InputTexts : onInputChange(t)
    \/ toggleDeepResearch
    \/ handleSend
    \/ \E c \in {0} \cup Conversations : sendResolves(c, TextBody)
    \/ sendRejects

\* The names typed in the new-project form.
ProjectNames == { << " " >>, << "p" >> }

\* Moving between projects, conversations and new chats while the lists
\* and the transcripts load.
NextNav ==
    \/ onAuthStateChanged(TRUE)
    \/ importDashboardResolves
    \/ \E l \in BOOLEAN : loadProjectsResolves(l)
    \/ \E p \in Projects : loadConversationsResolves(p)
    \/ \E p \in Projects : selectProject(p)
    \/ \E conv \in conversations : selectConversation(conv)
    \/ newChat
    \/ \E c \in Conversations : loadMessagesResolves(c)
    \/ \E c \in Conversations : loadMessagesRejects(c)

\* Creating projects and moving between projects and conversations.
NextProjects ==
    \/ onAuthStateChanged(TRUE)
    \/ importDashboardResolves
    \/ \E l \in BOOLEAN : loadProjectsResolves(l)
    \/ \E l \in BOOLEAN : loadProjectsRejects(l)
    \/ \E p \in Projects : loadConversationsResolves(p)
    \/ \E p \in Projects : selectProject(p)
    \/ \E conv \in conversations : selectConversation(conv)
    \/ toggleNewProject
    \/ \E t \in ProjectNames : onProjectNameChange(t)
    \/ handleCreateProject
    \/ \E c \in CreateCalls : createProjectResolves(c)
    \/ \E c \in CreateCalls : createProjectRejects(c)

\* Moving between conversations while a send is in flight.
NextReply ==
    \/ onAuthStateChanged(TRUE)
    \/ importDashboardResolves
    \/ \E l \in BOOLEAN : loadProjectsResolves(l)
    \/ \E p \in Projects : loadConversationsResolves(p)
    \/ \E conv \in conversations : selectConversation(conv)
    \/ \E c \in Conversations : loadMessagesResolves(c)
    \/ onInputChange(<< "h", "i" >>)
    \/ handleSend
    \/ \E c \in {0} \cup Conversations, b \in ReplyBodies : sendResolves(c, b)
    \/ sendRejects

\* Choosing a conversation, using the sidebar's toggle, the provider menu
\* and the header's flag and save buttons, whose requests are sent and
\* answered in any order.
NextHeader ==
    \/ onAuthStateChanged(TRUE)
    \/ importDashboardResolves
    \/ \E l \in BOOLEAN : loadProjectsResolves(l)
    \/ \E p \in Projects : loadConversationsResolves(p)
    \/ \E p \in Projects : loadConversationsRejects(p)
    \/ \E conv \in conversations : selectConversation(conv)
    \/ toggleSidebar
    \/ \E p \in Providers : onProviderChange(p)
    \/ newChat
    \/ toggleFlagClick
    \/ toggleSaveClick
    \/ \E p \in PatchCalls : authFetchSends(p)
    \/ \E p \in PatchCalls : getIdTokenRejects(p)
    \/ \E p \in PatchCalls : patchApplied(p)
    \/ \E p \in PatchCalls : patchFails(p)

\* The setters called one at a time with arguments of every kind.
SampleMessages == { AiMessage(Response(<<>>, 0, HtmlBody)) }

SampleLists ==
    { <<>>, << AiMessage(Response(<<>>, 0, TextBody)) >>,
      << HumanMessage(<<>>, << "h", "i" >>),
         AiMessage(Response(<<>>, 0, HtmlBody)) >> }

\* A setter is called with an object made for the call.
StoreCall(st) ==
    /\ StoreBecomes(st)
    /\ activeProjectListed' = FALSE
    /\ activeConversationListed' = FALSE
    /\ UNCHANGED << homeVars, dashVars, composerVars, request, loadVars,
                    backendVars >>
    /\ Renders

NextStore ==
    \/ \E u \in {NoUser, UserProfile} : StoreCall(setUser(Store, u))
    \/ \E ps \in {<<>>, ListedProjects} : StoreCall(setProjects(Store, ps))
    \/ \E p \in {0} \cup Projects : StoreCall(setActiveProject(Store, p))
    \/ \E p \in Projects :
          StoreCall(setConversations(Store, ListedConversations(p)))
    \/ \E c \in Conversations :
          StoreCall(setActiveConversation(Store, Conversation(c, FALSE, FALSE)))
    \/ StoreCall(setActiveConversation(Store, NoConversation))
    \/ \E ms \in SampleLists : StoreCall(setMessages(Store, ms))
    \/ \E m \in SampleMessages :
          /\ Len(messages) < MaxMessages
          /\ StoreCall(addMessage(Store, m))
    \/ \E b \in BOOLEAN : StoreCall(setSidebarOpen(Store, b))
    \/ \E p \in Providers : StoreCall(setSelectedProvider(Store, p))
    \/ \E b \in BOOLEAN : StoreCall(setIsLoading(Store, b))

SpecChat == InitChat /\ [][NextChat]_vars
SpecNav == InitChat /\ [][NextNav]_vars
SpecProjects == InitChat /\ [][NextProjects]_vars
SpecReply == InitChat /\ [][NextReply]_vars
SpecHeader == InitChat /\ [][NextHeader]_vars
SpecStore == InitChat /\ [][NextStore]_vars

\* Signing in and out, composing and sending, with a backend that answers
\* every send, by a response naming the conversation or by a failure.
NextSend ==
    \/ \E b \in BOOLEAN : onAuthStateChanged(b)
    \/ importDashboardResolves
    \/ \E l \in BOOLEAN : loadProjectsResolves(l)
    \/ onInputChange(<< "h", "i" >>)
    \/ handleSend
    \/ logTimer
    \/ \E c \in Conversations, b \in ReplyBodies : sendResolves(c, b)
    \/ sendRejects

\* Composing and sending while files are uploaded, the clock runs and the
\* messages of the conversation that a first reply has named are fetched.
NextUpload ==
    \/ onAuthStateChanged(TRUE)
    \/ importDashboardResolves
    \/ \E l \in BOOLEAN : loadProjectsResolves(l)
    \/ onInputChange(<< "h", "i" >>)
    \/ handleSend
    \/ \E c \in Conversations, b \in ReplyBodies : sendResolves(c, b)
    \/ sendRejects
    \/ \E c \in Conversations : loadMessagesResolves(c)
    \/ clockTicks
    \/ \E n \in 1..MaxFiles : handleFileUpload(n)
    \/ \E k \in 1..MaxFiles : uploadResolves(k)
    \/ \E k \in 1..MaxFiles : uploadRejects(k)

SpecUpload == InitChat /\ [][NextUpload]_vars

SendSettles ==
    \/ \E c \in Conversations, b \in ReplyBodies : sendResolves(c, b)
    \/ sendRejects

SpecSend == InitChat /\ [][NextSend]_vars /\ WF_vars(SendSettles)

\* ------------------------------------------------------------------------
\* Properties
\* ------------------------------------------------------------------------
ClampTo(x, lo, hi) == IF x < lo THEN lo ELSE IF x > hi THEN hi ELSE x

\* A payload of the SizeReport shape {type: "resize", height: <number>}.
IsSizeReport(d) ==
    /\ d.k = "object"
    /\ d.type = ResizeType
    /\ d.height.k \in {"number", "nan"}

\* C1: after a message the viewer accepts, with a reported numeric height h,
\* the heightPx of the viewer equals clamp(h + 40, 300, 800).
C1_AcceptedReportClamps ==
    (event # NoEvent /\ Accepts(event.data) /\ event.data.height.k = "number")
        => \A v \in listeners :
              iframeHeight[v] = Num(ClampTo(event.data.height.n + 40, 300, 800))

C1_Witness ==
    /\ event # NoEvent
    /\ event.data = Data(ResizeType, Num(100))
    /\ 1 \in listeners
    /\ iframeHeight[1] = Num(300)

\* C2: a message whose payload is not of the shape {type: "resize",
\* height: <number>} leaves heightPx, expanded and loaded of every viewer
\* unchanged.
C2_MalformedIgnored ==
    [][ (event' # NoEvent /\ ~IsSizeReport(event'.data))
            => UNCHANGED << iframeHeight, isExpanded, isLoaded >> ]_vars

\* C3: every message of type "resize" whose height is a non-negative number,
\* height 0 included, sets heightPx to clamp(height + 40, 300, 800).
C3_NonNegativeAccepted ==
    ( /\ event # NoEvent
      /\ DataType(event.data) = ResizeType
      /\ DataHeight(event.data).k = "number"
      /\ DataHeight(event.data).n >= 0 )
        => \A v \in listeners :
              iframeHeight[v] = Num(ClampTo(DataHeight(event.data).n + 40, 300, 800))

\* C4: in every reachable state the heightPx of a mounted viewer is a number
\* within [300, 800].
C4_HeightInRange ==
    \A v \in mounted :
        /\ iframeHeight[v].k = "number"
        /\ iframeHeight[v].n >= 300
        /\ iframeHeight[v].n <= 800

\* C5: refresh resets loaded to false: while a load started by a refresh (or
\* by the mount) has not completed, the viewer is in the not-loaded state.
C5_RefreshResetsLoaded ==
    \A v \in mounted : loadPending[v] => ~isLoaded[v]

\* C6: the document in the frame of a mounted viewer, also after a refresh,
\* is the resolved document of the first load: the inline HTML with the
\* script injected, or the URL.
C6_RefreshReloadsResolved ==
    \A v \in mounted :
        LoadedDocument(frameDoc[v]) = LoadedDocument(RenderedFrame(props(v)))

\* C7: inline HTML containing the closing body tag exactly once resolves to
\* the original text with exactly one script block placed immediately before
\* that tag and nothing else changed; inline HTML without a closing body tag
\* resolves to itself.
C7_InjectionExact ==
    \A v \in mounted :
        hasHtml(messages[v]) =>
            LET html == messages[v].html_content.s
                occ == Occurrences(html, CloseBody)
                doc == frameDoc[v].srcdoc
            IN /\ doc.k = "string"
               /\ occ = {} => doc.s = html
               /\ Cardinality(occ) = 1 =>
                     LET i == CHOOSE j \in occ : TRUE
                     IN /\ doc.s = SubSeq(html, 1, i - 1) \o ScriptBlock
                                      \o SubSeq(html, i, Len(html))
                        /\ Cardinality(Occurrences(doc.s, ScriptBlock)) = 1
                        /\ OccursAt(doc.s, CloseBody, i + Len(ScriptBlock))

C7_Witness ==
    \E v \in mounted :
        /\ hasHtml(messages[v])
        /\ Cardinality(Occurrences(messages[v].html_content.s, CloseBody)) = 1
        /\ messages[v].html_content.s[1] = "x"
        /\ Len(frameDoc[v].srcdoc.s) = Len(messages[v].html_content.s) + 3

\* C8: toggleExpanded is its own inverse: in every step that flips expanded
\* the new state is the toggled old state, toggling it again gives back the
\* old expanded, heightPx and loaded, and the frame is sized as before.
C8_ToggleInvolution ==
    [][ \A v \in mounted \cap mounted' :
           isExpanded'[v] # isExpanded[v] =>
              /\ ViewerState(v)' = toggleExpanded(ViewerState(v))
              /\ toggleExpanded(ViewerState(v)') = ViewerState(v)
              /\ FrameHeight(toggleExpanded(ViewerState(v)')) =
                    FrameHeight(ViewerState(v)) ]_vars

C8_Witness ==
    \E v \in mounted :
        /\ isExpanded[v]
        /\ isLoaded[v]
        /\ iframeHeight[v] = Num(540)

\* C9: the heightPx of a mounted viewer changes only in a step that accepts
\* a message; refresh, load-complete, open-externally and the backdrop click
\* leave it unchanged.
C9_HeightFrame ==
    [][ /\ \A v \in mounted \cap mounted' :
              iframeHeight'[v] # iframeHeight[v] =>
                  (event' # NoEvent /\ Accepts(event'.data))
        /\ \A v \in Viewers :
              (handleRefresh(v) \/ onLoad(v) \/ openInNewTab(v) \/ BackdropClick(v))
                  => iframeHeight' = iframeHeight ]_vars

C9_Witness ==
    \E v \in mounted :
        /\ iframeHeight[v] = Num(540)
        /\ isLoaded[v]
        /\ loadPending[v]
        /\ opened[v] # Undefined
        /\ event = NoEvent

\* C10: a SizeReport posted by the content of one viewer changes the
\* heightPx of that viewer only; the state of every other viewer is
\* unchanged.
C10_OnlySenderResized ==
    [][ (event' # NoEvent /\ event'.src \in Viewers
                          /\ IsSizeReport(event'.data)) =>
           \A w \in Viewers \ {event'.src} :
               /\ iframeHeight'[w] = iframeHeight[w]
               /\ isExpanded'[w] = isExpanded[w]
               /\ isLoaded'[w] = isLoaded[w] ]_vars

\* The per-viewer state a component owns: its three state cells and its frame.
ComponentState(v) ==
    << isExpanded[v], isLoaded[v], iframeHeight[v], frameDoc[v], loadPending[v] >>

\* C11: the message listener is acquired on mount and released on unmount: in
\* every state there are as many registered listeners as mounted viewers, and
\* a message event dispatched while a viewer is unmounted changes nothing of
\* that viewer's state.
C11_ListenerLifecycle ==
    /\ [](Cardinality(listeners) = Cardinality(mounted) /\ listeners = mounted)
    /\ [][\A v \in Viewers :
            (event' # NoEvent /\ v \notin mounted)
               => /\ ComponentState(v)' = ComponentState(v)
                  /\ lastAccepted'[v] = lastAccepted[v]]_vars

\* A size report is dispatched while a viewer that was mounted before (it
\* opened its content in a new tab) is unmounted and another is mounted.
C11_Witness ==
    /\ event # NoEvent
    /\ IsSizeReport(event.data)
    /\ \E v \in Viewers :
          /\ v \notin mounted
          /\ opened[v] # Undefined
          /\ iframeHeight[v] = Undefined
    /\ mounted # {}

\* C12: opening the content externally changes no state of the viewer: the
\* expanded and loaded flags, the height and the frame's document stay as they
\* were, for inline as for URL content.
C12_OpenExternallyPure ==
    [][\A v \in Viewers :
          (opened'[v] # opened[v] \/ openInNewTab(v))
             => ComponentState(v)' = ComponentState(v)]_vars

\* Content was opened externally from a viewer that is expanded, loaded and
\* resized, and whose frame still shows the resolved document.
C12_Witness ==
    \E v \in mounted :
        /\ opened[v] = ExternalDocument(props(v))
        /\ opened[v] # Undefined
        /\ isExpanded[v] /\ isLoaded[v]
        /\ iframeHeight[v] # Num(InitialHeight)
        /\ frameDoc[v] = RenderedFrame(props(v))

\* C13: handling a message event never throws, whatever the payload.
C13_HandlerNeverThrows == thrown = {}

\* C14: the sandbox lets the embedded content run scripts but not reach the
\* host page: no step is an embedded script acting on the host's document,
\* and a message event from the content changes nothing of the host but
\* iframeHeight.
C14_SandboxIsolation ==
    [][/\ parentAccess' = 0
       /\ event' # NoEvent =>
             UNCHANGED << mounted, listeners, isExpanded, isLoaded, frameDoc,
                          loadPending, opened >>]_vars

\* C15: a send issued while the signed-in user's plan tier is "free" never
\* carries use_deep_research = true.
C15_DeepResearchIsPro ==
    [][(handleSend /\ user.planTier = "free")
          => ~request'.use_deep_research]_vars

\* C16: the height depends only on the last size report the handler applied:
\* it is clamp(h_last + 40, 300, 800), and the initial 450 when no message
\* was applied, whatever came before and whatever toggles and refreshes
\* were interleaved.
C16_LastReportWins ==
    \A v \in mounted :
        /\ lastAccepted[v] = NullData => iframeHeight[v] = Num(InitialHeight)
        /\ (lastAccepted[v] # NullData /\ IsSizeReport(lastAccepted[v])) =>
              iframeHeight[v] =
                 Num(ClampTo(lastAccepted[v].height.n + Margin,
                             MinHeight, MaxHeight))

\* A viewer that applied the report of 100, was refreshed and expanded, and
\* then received a message it ignored.
C16_Witness ==
    \E v \in mounted :
        /\ lastAccepted[v] = Data(ResizeType, Num(100))
        /\ iframeHeight[v] = Num(300)
        /\ docGen[v] = 1
        /\ isExpanded[v]
        /\ event # NoEvent
        /\ event.data # lastAccepted[v]

\* C17: there is no generation check: a size report posted by a document that
\* a refresh has replaced, delivered after that refresh, is applied by every
\* registered handler exactly like a report of the current document.
C17_StaleReportApplied ==
    [][(/\ event' # NoEvent
        /\ event'.gen < CurrentGen(event'.src)
        /\ IsSizeReport(event'.data)
        /\ Accepts(event'.data))
          => \A v \in listeners :
                /\ iframeHeight'[v] =
                      Num(ClampTo(event'.data.height.n + Margin,
                                  MinHeight, MaxHeight))
                /\ lastAccepted'[v] = event'.data]_vars

\* The report of 100 posted by the first document is delivered after the
\* refresh and sets the height to 300.
C17_Witness ==
    /\ event.src \in mounted
    /\ docGen[event.src] = 1
    /\ event.gen = 0
    /\ event.data = Data(ResizeType, Num(100))
    /\ iframeHeight[event.src] = Num(300)

\* C18: as long as the frame delivers no load event, loaded stays false: in a
\* viewer that stays mounted, no step other than the frame's load event
\* turns isLoaded from false to true.
C18_LoadedOnlyByLoadEvent ==
    [][\A v \in mounted \cap mounted' :
          (~isLoaded[v] /\ ~onLoad(v)) => ~isLoaded'[v]]_vars

\* A viewer still waiting for its load event after a refresh, a toggle, an
\* applied size report and an open-externally action.
C18_Witness ==
    \E v \in mounted :
        /\ ~isLoaded[v]
        /\ loadPending[v]
        /\ docGen[v] = 1
        /\ isExpanded[v]
        /\ opened[v] # Undefined
        /\ lastAccepted[v] = Data(ResizeType, Num(500))

\* C19: the frame's height is derived from the viewport when the viewer is
\* expanded and is iframeHeight when it is collapsed; a size report accepted
\* while expanded still updates iframeHeight, and that value is the frame's
\* height as soon as the viewer is collapsed.
C19_FrameHeightGoverned ==
    /\ [](\A v \in mounted :
             FrameHeight(ViewerState(v)) =
                IF isExpanded[v] THEN Str(<< "calc(100vh - 80px)" >>)
                ELSE iframeHeight[v])
    /\ [][\A v \in mounted \cap mounted' :
             /\ (/\ isExpanded[v]
                 /\ v \in listeners
                 /\ event' # NoEvent
                 /\ IsSizeReport(event'.data)
                 /\ Accepts(event'.data))
                   => iframeHeight'[v] =
                         Num(ClampTo(event'.data.height.n + Margin,
                                     MinHeight, MaxHeight))
             /\ (isExpanded[v] /\ ~isExpanded'[v])
                   => FrameHeight(ViewerState(v)') = iframeHeight[v]]_vars

\* An expanded viewer whose handler has just applied the report of 500: the
\* frame has the viewport height and iframeHeight is 540.
C19_Witness ==
    \E v \in mounted :
        /\ isExpanded[v]
        /\ event.data = Data(ResizeType, Num(500))
        /\ iframeHeight[v] = Num(540)
        /\ FrameHeight(ViewerState(v)) = Str(<< "calc(100vh - 80px)" >>)

\* C20 as stated: every viewer the transcript builds receives exactly one
\* content source, a URL or inline HTML, never both and never neither.
C20_ExactlyOneSource ==
    \A v \in mounted :
        Truthy(props(v).htmlContent) # Truthy(props(v).url)

\* C20 amended: every viewer the transcript builds receives at least one
\* content source (inline HTML, a URL, or both, never neither), and inline
\* HTML is what the frame shows whenever it is present.
C20_AtLeastOneSource ==
    \A v \in mounted :
        /\ Truthy(props(v).htmlContent) \/ Truthy(props(v).url)
        /\ Truthy(props(v).htmlContent) =>
              /\ frameDoc[v].srcdoc # Undefined
              /\ frameDoc[v].src = Undefined

\* A viewer built from a message that carries both inline HTML and a URL.
C20_Witness ==
    \E v \in mounted :
        /\ Truthy(props(v).htmlContent)
        /\ Truthy(props(v).url)
        /\ frameDoc[v].src = Undefined

\* C21: open-externally opens the content source the viewer renders.  With
\* inline HTML present (with or without a URL beside it) the frame shows the
\* inline HTML, with the size script at first and as given after a refresh,
\* and what is opened externally is the inline HTML, never the URL; with a
\* URL alone the frame shows that URL and that URL is what is opened.
C21_OpensRenderedSource ==
    \A v \in mounted :
        /\ Truthy(props(v).htmlContent) =>
              /\ frameDoc[v].src = Undefined
              /\ LoadedDocument(frameDoc[v]) =
                    IF docGen[v] = 0 THEN enhancedHtml(props(v).htmlContent)
                    ELSE props(v).htmlContent
              /\ opened[v] \in {Undefined, props(v).htmlContent}
        /\ ~Truthy(props(v).htmlContent) =>
              /\ LoadedDocument(frameDoc[v]) = props(v).url
              /\ opened[v] \in {Undefined, props(v).url}

\* A viewer given inline HTML and a URL, refreshed, whose content was opened
\* externally: the inline HTML is in the frame and in the new tab.
C21_Witness ==
    \E v \in mounted :
        /\ Truthy(props(v).htmlContent)
        /\ Truthy(props(v).url)
        /\ docGen[v] = 1
        /\ opened[v] = props(v).htmlContent
        /\ LoadedDocument(frameDoc[v]) = props(v).htmlContent

\* A step that issues a send: a human message is appended and the loading
\* flag is up afterwards.
IssuesSend ==
    /\ Len(messages') = Len(messages) + 1
    /\ messages'[Len(messages')].role = "human"
    /\ messages'[Len(messages')].id[1] = "temp"
    /\ isLoading'
    /\ request'.pending

\* C22: at most one send is in flight: a send is issued (message appended,
\* request made) only from a state where the input is not blank, a project
\* is active, isLoading is false and no request is outstanding; in every
\* other state handleSend does nothing.
C22_SingleSendInFlight ==
    [][IssuesSend =>
          /\ Trim(input) # <<>>
          /\ activeProject # 0
          /\ ~isLoading
          /\ ~request.pending
          /\ input' = <<>>]_vars

\* A send is in flight and the user has typed the next message: with room
\* left in the transcript, only isLoading keeps handleSend from acting.
C22_Witness ==
    /\ request.pending
    /\ isLoading
    /\ ChatShown
    /\ Trim(input) # <<>>
    /\ Len(messages) + 2 <= MaxMessages

\* C23: isLoading is true exactly while a send is outstanding; when the
\* request settles, by a response or by a failure, isLoading is false and
\* the status log is empty; and every send settles in that way.
C23_SendCompletes ==
    /\ [](isLoading <=> request.pending)
    /\ [][(request.pending /\ ~request'.pending) =>
             (~isLoading' /\ statusLog' = <<>>)]_vars
    /\ (request.pending ~> (~request.pending /\ ~isLoading /\ statusLog = <<>>))

\* A send failed after both progress timers had fired: the loading flag is
\* down and the status log is empty.
C23_Witness ==
    /\ ~request.pending
    /\ ~isLoading
    /\ statusLog = <<>>
    /\ Len(messages) = 4
    /\ messages[2].role = "ai"
    /\ messages[2].content = Reply
    /\ messages[4].content = ErrorText

\* The outstanding send ends and no reply of the backend is put at the end
\* of the list: the request has failed.
SendFails ==
    /\ request.pending
    /\ ~request'.pending
    /\ ~(/\ Len(messages') = Len(messages) + 1
         /\ messages'[Len(messages')].id[1] = "reply")

\* The human message that handleSend appended for the outstanding send is
\* in the list.
HumanMessageShown ==
    \E i \in 1..Len(messages) :
       /\ messages[i].role = "human"
       /\ messages[i].id[1] = "temp"
       /\ messages[i].content = request.message
       /\ \A j \in (i + 1)..Len(messages) : messages[j].id[1] # "temp"

\* C24: when a send fails, the human message appended for it is in the
\* list and is kept, exactly one message is appended after it, an AI message
\* with the fixed error text, and the active conversation is not changed.
C24_ErrorFollowsHuman ==
    [][SendFails =>
          /\ HumanMessageShown
          /\ Len(messages') = Len(messages) + 1
          /\ SubSeq(messages', 1, Len(messages)) = messages
          /\ messages'[Len(messages')].role = "ai"
          /\ messages'[Len(messages')].content =
                << "Something went wrong. Please try again." >>
          /\ activeConversation' = activeConversation]_vars

\* C25: the response of a message-list load for a conversation that is no
\* longer the active one does not overwrite the list already fetched for the
\* active conversation: such a step leaves the message list as it is.
C25_StaleLoadIgnored ==
    [][\A c \in Conversations :
          (/\ messageLoads'[c] < messageLoads[c]
           /\ activeConversation.id # 0
           /\ activeConversation.id # c
           /\ messages = StoredMessages(activeConversation.id))
             => messages' = messages]_vars

\* C26: the reply or error message of a send is appended only to the list
\* of the conversation in which the send was issued: when another
\* conversation is the active one as the request settles, the list is left
\* as it is.
C26_ReplyToIssuingConversation ==
    [][(/\ request.pending
        /\ ~request'.pending
        /\ request.conversation_id # 0
        /\ activeConversation.id # request.conversation_id)
          => messages' = messages]_vars

\* C27: every send carries a conversation_id that is absent or names a
\* conversation of the project whose id the same send carries; once another
\* project is selected, a conversation of the old project is not the active
\* conversation any more.
C27_ConversationOfProject ==
    [][/\ IssuesSend =>
             \/ request'.conversation_id = 0
             \/ ProjectOf(request'.conversation_id) = request'.project_id
       /\ (activeProject # 0 /\ activeProject' # activeProject) =>
             \/ activeConversation'.id = 0
             \/ ProjectOf(activeConversation'.id) = activeProject']_vars

\* C28: flag and save are toggles: a click sends the opposite of what the
\* previous click on the same control of the same conversation sent, and
\* after a click the active conversation's field in the store is the value
\* that was sent.
C28_FlagSaveToggle ==
    [][\A p \in PatchCalls :
          /\ (/\ patchesSent'[p] > patchesSent[p]
              /\ patch.sent
              /\ patch.conversation = p.conversation
              /\ patch.field = p.field)
                => p.value # patch.value
          /\ tokenWaits'[p] > tokenWaits[p] =>
                activeConversation'[p.field] = p.value]_vars

\* A step of the dashboard's or the chat view's user interface.
DashboardStep ==
    \/ \E p \in Projects : selectProject(p)
    \/ \E t \in InputTexts : onInputChange(t)
    \/ toggleDeepResearch
    \/ handleSend

\* C29: once an auth callback has arrived the store's user is non-null
\* exactly when the Firebase user is; the loading screen is shown before the
\* first callback, then the auth page without a Firebase user and the
\* dashboard with one, so the dashboard's interface acts only for a
\* signed-in user.
C29_AuthGate ==
    /\ [](/\ ~loading => (user.signedIn <=> firebaseUser)
          /\ loading => (~user.signedIn /\ ~firebaseUser)
          /\ Screen = "loading" <=> loading
          /\ Screen = "auth" <=> (~loading /\ ~firebaseUser)
          /\ Screen = "dashboard" <=> (~loading /\ firebaseUser)
          /\ dashboardMounted => Screen = "dashboard")
    /\ [][DashboardStep =>
             (~loading /\ firebaseUser /\ user.signedIn)]_vars

\* The user has signed out after a session in which the projects were
\* loaded: the store's user is null again and the auth page is shown.
C29_Witness ==
    /\ ~loading
    /\ ~firebaseUser
    /\ user = NoUser
    /\ Screen = "auth"
    /\ Len(projects) > 0
    /\ activeProject # 0

\* The fields of the store a setter's result shares with the store.
SameExcept(st, field) ==
    /\ DOMAIN st = DOMAIN Store
    /\ \A f \in DOMAIN Store \ {field} : st[f] = Store[f]

\* C30: every setter changes its own field to the given value and no other
\* field; addMessage puts the new message at the end of the list and keeps
\* the existing messages in their order; setMessages makes the list exactly
\* the given one.
C30_SettersFrame ==
    /\ \A u \in {NoUser, UserProfile} :
          setUser(Store, u).user = u /\ SameExcept(setUser(Store, u), "user")
    /\ \A ps \in {<<>>, ListedProjects} :
          /\ setProjects(Store, ps).projects = ps
          /\ SameExcept(setProjects(Store, ps), "projects")
    /\ \A p \in {0} \cup Projects :
          /\ setActiveProject(Store, p).activeProject = p
          /\ SameExcept(setActiveProject(Store, p), "activeProject")
    /\ \A p \in Projects :
          /\ setConversations(Store, ListedConversations(p)).conversations =
                ListedConversations(p)
          /\ SameExcept(setConversations(Store, ListedConversations(p)),
                        "conversations")
    /\ \A c \in {NoConversation} \cup
                { Conversation(x, FALSE, FALSE) : x \in Conversations } :
          /\ setActiveConversation(Store, c).activeConversation = c
          /\ SameExcept(setActiveConversation(Store, c), "activeConversation")
    /\ \A ms \in SampleLists :
          /\ setMessages(Store, ms).messages = ms
          /\ SameExcept(setMessages(Store, ms), "messages")
    /\ \A m \in SampleMessages :
          /\ Len(addMessage(Store, m).messages) = Len(messages) + 1
          /\ SubSeq(addMessage(Store, m).messages, 1, Len(messages)) = messages
          /\ addMessage(Store, m).messages[Len(messages) + 1] = m
          /\ SameExcept(addMessage(Store, m), "messages")
    /\ \A b \in BOOLEAN :
          /\ setSidebarOpen(Store, b).sidebarOpen = b
          /\ SameExcept(setSidebarOpen(Store, b), "sidebarOpen")
          /\ setIsLoading(Store, b).isLoading = b
          /\ SameExcept(setIsLoading(Store, b), "isLoading")
    /\ \A p \in Providers :
          /\ setSelectedProvider(Store, p).selectedProvider = p
          /\ SameExcept(setSelectedProvider(Store, p), "selectedProvider")

\* A store every field of which has been set, holding two different
\* messages added one after the other.
C30_Witness ==
    /\ Len(messages) = 2
    /\ messages[1] = AiMessage(Response(<<>>, 0, TextBody))
    /\ messages[2] = AiMessage(Response(<<>>, 0, HtmlBody))
    /\ user = UserProfile
    /\ activeProject # 0
    /\ activeConversation.id # 0
    /\ conversations # {}
    /\ Len(projects) > 0
    /\ ~sidebarOpen
    /\ selectedProvider = "openai"
    /\ isLoading

====
